---- MODULE Spec2Model ----
(***************************************************************************)
(* A model of the MyDB storage engine (LSM tree): the Database facade of   *)
(* src/src/db.cpp, the memtable over its skiplist, the write-ahead log,    *)
(* the SSTable builder / reader / merger, the version set with its         *)
(* MANIFEST, and the compactor.                                            *)
(*                                                                         *)
(* Keys are the one-byte strings 1..NumKeys, ordered as the bytes are;     *)
(* EmptyKey is the empty string "", smaller than every key.  Values are    *)
(* the one-byte strings 1..NumValues; EmptyValue is "", the value a        *)
(* Delete carries.                                                         *)
(***************************************************************************)
EXTENDS Integers, Sequences, FiniteSets, TLC

(* ------------------------------ bounds --------------------------------- *)
NumKeys == 2
NumValues == 2
\* total number of mutations (put / delete / batch operation) ever issued
MaxOps == 2
\* flushes begin while the next file number is at most this, where a flush
\* may fail at its builder or at the MANIFEST
MaxFlushFileNumber == 3
\* a write may fail while its sequence number is at most this
MaxFailedSequence == 2
\* a compaction may fail while the next file number is at most this
MaxFailFileNumber == 6
\* entries added to the SSTable builders that are used on their own
MaxTableEntries == 4
\* SSTable files these builders write
MaxTables == 2
\* keys inserted into the skiplist used on its own are 1..MaxSkipKey
MaxSkipKey == 3
\* nodes inserted into it
MaxSkipNodes == 3
\* heights RandomHeight returns for them are 1..MaxSkipHeight
MaxSkipHeight == 3
\* InsertTuple is called while the page holds fewer tuples than this
MaxTuples == 3
\* sequence numbers of the entries added to the memtable used on its own
MaxMemSequence == 3
\* largest SSTable file number the version set hands out
MaxFileNumber == 10
\* largest SSTable file number handed out in the runs with close, crash and reopen
MaxCrashFileNumber == 5
\* largest SSTable file number handed out in the runs of the two writer threads
MaxWritersFileNumber == 2
\* largest SSTable file number a flush may start at while a reader and the
\* compactor's thread run
MaxConcFileNumber == 5
\* longest write batch
MaxBatch == 2
\* number of times the database is opened again after a close or a crash
MaxReopens == 2
\* flushes begin while the next file number is at most this, where a flush
\* may fail and the process may be killed
MaxFaultsFileNumber == 2
\* the process is killed while fewer reopens than this have been made
MaxKills == 1
\* frames of the replacer on its own
NumFrames == 3
\* RecordAccess is called while the replacer's clock is below this
MaxTimestamp == 5
\* frames of the buffer pool
PoolSize == 2
\* the page ids the callers of the buffer pool use are 0..MaxPageId
MaxPageId == 2
\* pins a caller holds on one page at a time
MaxPins == 1
\* calls of the replacer's RecordAccess by the buffer pool
MaxPoolAccesses == 4
\* records appended to the WAL file that is read back
MaxWalRecords == 2
\* keys given to BloomFilter::Create, and added to an SSTableBuilder
MaxBloomKeys == 2
\* files added to the version set whose MANIFEST is written
MaxManifestFiles == 2

(* ------------------------- program constants --------------------------- *)
kPut == 1
kDelete == 2
kMaxLevels == 7
kLevel0CompactionTrigger == 4
kLevelSizeMultiplier == 10
kSSTableBlockSize == 4096
kBloomFilterBitsPerKey == 10
kMemTableMaxSize == 67108864
kSkipListMaxHeight == 12
\* target size of level 1: 10 * 1024 * 1024
kLevel1TargetSize == 10485760
\* SSTableFooter::kEncodedLength
kFooterEncodedLength == 60
INVALID_PAGE_ID == -1
INVALID_FRAME_ID == -1
\* 0x4D594442
kMagicNumber == 1297695810

EmptyKey == 0
EmptyValue == 0
Keys == 1..NumKeys
Values == 1..NumValues
\* nullptr of a std::unique_ptr<MemTable>; live objects have ids 1, 2, ...
NullPtr == 0

\* std::string::size() of a key / value
KeySize(k) == IF k = EmptyKey THEN 0 ELSE 1
ValueSize(v) == IF v = EmptyValue THEN 0 ELSE 1

\* Result<std::string>: a value, or a non-ok status
Ok(v) == [ok |-> TRUE, value |-> v]
NotFound == [ok |-> FALSE, value |-> EmptyValue]

(* ------------------------------ memtable ------------------------------- *)
\* a comparator that puts the older entry of a key first
EntryLessOldestFirst(a, b) ==
    IF a.key # b.key THEN a.key < b.key ELSE a.sequence < b.sequence

\* MemTable::SkipListImpl::Entry::operator<  (key ascending, newer first)
EntryLess(a, b) ==
    IF a.key # b.key THEN a.key < b.key ELSE a.sequence > b.sequence

\* SkipList::FindGreaterOrEqual: index of the first node that is not less
\* than the target, Len + 1 when there is none (nullptr)
FindGreaterOrEqual(list, target) ==
    LET ge == {i \in 1..Len(list) : ~EntryLess(list[i], target)}
    IN IF ge = {} THEN Len(list) + 1
       ELSE CHOOSE i \in ge : \A j \in ge : i <= j

\* SkipList::Insert: the node is linked right before the first node that is
\* not less than it (an equal node ends up behind the new one)
SkipListInsert(list, e) ==
    LET p == FindGreaterOrEqual(list, e)
    IN SubSeq(list, 1, p - 1) \o <<e>> \o SubSeq(list, p, Len(list))

\* MemTable::Add
MemTableAdd(mt, key, value, seq, type) ==
    [entries |-> SkipListInsert(mt.entries,
                    [key |-> key, value |-> value, sequence |-> seq, type |-> type]),
     memory_usage |-> mt.memory_usage + KeySize(key) + ValueSize(value)
                        + 8 + 1 + 8 * kSkipListMaxHeight,
     count |-> mt.count + 1]

NewMemTable == [entries |-> <<>>, memory_usage |-> 0, count |-> 0]

\* MemTable::ShouldFlush
ShouldFlush(mt) == mt.memory_usage >= kMemTableMaxSize

RECURSIVE MemTableWalk(_, _, _, _)
MemTableWalk(list, i, key, sequence) ==
    IF i > Len(list) THEN NotFound
    ELSE IF list[i].key # key THEN NotFound
    ELSE IF list[i].sequence <= sequence
         THEN IF list[i].type = kDelete THEN NotFound ELSE Ok(list[i].value)
    ELSE MemTableWalk(list, i + 1, key, sequence)

\* MemTable::Get
MemTableGet(mt, key, sequence) ==
    MemTableWalk(mt.entries,
                 FindGreaterOrEqual(mt.entries, [key |-> key, sequence |-> sequence]),
                 key, sequence)

(* ------------------------------ SSTable -------------------------------- *)
\* bytes of one encoded entry: [KeyLen 4B][Key][ValLen 4B][Value]
EntrySize(e) == 4 + KeySize(e.key) + 4 + ValueSize(e.value)

RECURSIVE BlockBytes(_)
BlockBytes(b) == IF b = <<>> THEN 0 ELSE EntrySize(Head(b)) + BlockBytes(Tail(b))

\* SSTableBuilder::Add / FlushBlock over a whole run of entries: `blocks` are
\* the blocks written so far, `cur` the data_block_ being filled
RECURSIVE BuilderAdd(_, _, _, _)
BuilderAdd(rest, blocks, cur, block_size) ==
    IF rest = <<>> THEN [blocks |-> blocks, cur |-> cur]
    ELSE LET nb == Append(cur, Head(rest))
         IN IF BlockBytes(nb) >= block_size
            THEN BuilderAdd(Tail(rest), Append(blocks, nb), <<>>, block_size)
            ELSE BuilderAdd(Tail(rest), blocks, nb, block_size)

RECURSIVE IndexBytes(_)
IndexBytes(blocks) ==
    IF blocks = <<>> THEN 0
    ELSE 4 + KeySize(Head(blocks)[1].key) + 16 + IndexBytes(Tail(blocks))

RECURSIVE DataBytes(_)
DataBytes(blocks) ==
    IF blocks = <<>> THEN 0 ELSE BlockBytes(Head(blocks)) + DataBytes(Tail(blocks))

\* BloomFilter::Create + Serialize: 4 bytes of num_hashes and the bit array
BloomBytes(n) ==
    LET num_bytes == (n * kBloomFilterBitsPerKey + 7) \div 8
    IN 4 + (IF num_bytes < 8 THEN 8 ELSE num_bytes)

\* SSTableBuilder::Finish: the file as it is on disk.  The bloom filter is
\* kept as the set of the keys added to it (AddKey sets, and MayContain
\* tests, the same bit positions of a key).
BuildSSTable(entries, block_size) ==
    LET r == BuilderAdd(entries, <<>>, <<>>, block_size)
        blocks == IF r.cur = <<>> THEN r.blocks ELSE Append(r.blocks, r.cur)
    IN [blocks |-> blocks,
        bloom |-> {entries[i].key : i \in 1..Len(entries)},
        entry_count |-> Len(entries),
        file_size |-> DataBytes(blocks) + 4 + IndexBytes(blocks)
                        + BloomBytes(Len(entries)) + kFooterEncodedLength]

\* SSTableReader::FindBlock: the binary search of the index (0-based result)
RECURSIVE FindBlockSearch(_, _, _, _)
FindBlockSearch(blocks, key, left, right) ==
    IF left < right
    THEN LET mid == left + (right - left) \div 2
         IN IF blocks[mid + 1][1].key <= key
            THEN FindBlockSearch(blocks, key, mid + 1, right)
            ELSE FindBlockSearch(blocks, key, left, mid)
    ELSE IF left > 0 THEN left - 1 ELSE 0

FindBlock(blocks, key) == FindBlockSearch(blocks, key, 0, Len(blocks))

\* SSTableIteratorImpl::Seek: the entry the iterator stands on (a sequence
\* of one entry), or the empty sequence when the iterator is not Valid
SSTableSeek(file, key) ==
    IF file.blocks = <<>> THEN <<>>
    ELSE LET bi == FindBlock(file.blocks, key) + 1
             blk == file.blocks[bi]
             ge == {i \in 1..Len(blk) : blk[i].key >= key}
         IN IF ge # {} THEN <<blk[CHOOSE i \in ge : \A j \in ge : i <= j]>>
            ELSE IF bi + 1 <= Len(file.blocks) THEN <<file.blocks[bi + 1][1]>>
            ELSE <<>>

\* SSTableReader::MayContain
MayContain(file, key) == key \in file.bloom

\* SSTableReader::Get
SSTableGet(file, key) ==
    IF ~MayContain(file, key) THEN NotFound
    ELSE LET e == SSTableSeek(file, key)
         IN IF e # <<>> /\ e[1].key = key THEN Ok(e[1].value) ELSE NotFound

\* SSTableIteratorImpl::SeekToFirst / Next: the entries in file order
RECURSIVE Flatten(_)
Flatten(blocks) ==
    IF blocks = <<>> THEN <<>> ELSE Head(blocks) \o Flatten(Tail(blocks))

\* SSTableReader::SmallestKey / LargestKey, as Initialize records them
SmallestKey(file) ==
    IF file.blocks = <<>> THEN EmptyKey ELSE file.blocks[1][1].key
LargestKey(file) ==
    IF file.blocks = <<>> THEN EmptyKey
    ELSE LET last == file.blocks[Len(file.blocks)] IN last[Len(last)].key

\* SSTableMerger::Merge: `iters` are the remaining entries of each input that
\* is not exhausted, in input order; the first iterator with the smallest
\* key is written and advanced
RECURSIVE MergeLoop(_, _)
MergeLoop(iters, out) ==
    IF iters = <<>> THEN out
    ELSE LET min_idx == CHOOSE i \in 1..Len(iters) :
                 /\ \A j \in 1..Len(iters) : iters[i][1].key <= iters[j][1].key
                 /\ \A j \in 1..(i - 1) : iters[j][1].key > iters[i][1].key
             adv == Tail(iters[min_idx])
             next == IF adv = <<>>
                     THEN SubSeq(iters, 1, min_idx - 1)
                            \o SubSeq(iters, min_idx + 1, Len(iters))
                     ELSE [iters EXCEPT ![min_idx] = adv]
         IN MergeLoop(next, Append(out, iters[min_idx][1]))

RECURSIVE NonEmptyIters(_)
NonEmptyIters(inputs) ==
    IF inputs = <<>> THEN <<>>
    ELSE LET es == Flatten(Head(inputs).blocks)
         IN (IF es = <<>> THEN <<>> ELSE <<es>>) \o NonEmptyIters(Tail(inputs))

Merge(inputs) == BuildSSTable(MergeLoop(NonEmptyIters(inputs), <<>>), kSSTableBlockSize)

(* ----------------------------- state ---------------------------------- *)
VARIABLES
    \* Database (src/include/mydb/db.hpp)
    dbOpen,               \* a Database object exists (Open returned it)
    sequence_,            \* std::atomic<SequenceNumber> sequence_
    memtable_,            \* unique_ptr<MemTable>: an object id, or NullPtr
    immutable_memtable_,  \* unique_ptr<MemTable>: an object id, or NullPtr
    heap,                 \* the live MemTable objects, by id
    nextObj,              \* the id the next allocated MemTable gets
    wal_,                 \* the file the WALWriter wal_ appends to
    \* VersionSet and Compactor (src/include/mydb/engine/compactor.hpp)
    levels_,              \* per level, the list of FileMetaData
    next_file_number_,
    running_,
    pending_compaction_,
    \* the database directory
    sstFiles,             \* <n>.sst files: file number -> contents
    manifest,             \* the MANIFEST file
    walFiles,             \* <seq>.wal files: name -> records
    \* bookkeeping of the calls made so far (not program state)
    history,              \* the mutations acknowledged, in the order issued
    snapshot,             \* the value the last GetSnapshot() returned, -1: none
    crashedAt,            \* Len(history) at the last crash, -1: never crashed
    reopens,              \* how often the database was opened again
    \* the threads that call into the database, and the compactor's thread
    write_mutex_,         \* std::mutex write_mutex_: the thread that holds it
    mutex_,               \* std::shared_mutex mutex_: the threads that hold it shared
    pc,                   \* per thread, the statement it executes next
    local,                \* per thread, the local variables of the call it is in
    log,                  \* the sequence numbers in the order the threads appended
                          \* them to the WAL and inserted them into the memtable,
                          \* and the threads in the order of their inserts
    \* the components that are used on their own (src/include/mydb/storage)
    replacer,             \* an LRUKReplacer object
    evicted,              \* bookkeeping: the last call of Evict, what it was
                          \* called on and what it returned
    bpm,                  \* a BufferPoolManager object with its DiskManager's file
    bpmAlive,             \* the BufferPoolManager has not been destroyed
    walBytes,             \* the bytes of a WAL file a WALWriter appends to and a
                          \* WALReader reads
    walReader,            \* the WALReader: its stream and what ReadRecord returned
    walCalls,             \* bookkeeping: the records appended, and which of them
                          \* had a byte altered in the file (0: none)
    bloom,                \* a BloomFilter made by Create, its serialised bytes and
                          \* the filter Deserialize makes of them
    table,                \* an SSTableBuilder's keys, the file Finish writes and
                          \* the SSTableReader opened on it
    vsWritten,            \* a VersionSet whose WriteManifest is called
    vsFile,               \* the MANIFEST file it writes
    vsLoaded,             \* a fresh VersionSet whose LoadManifest is called
    memTable,             \* a MemTable used on its own, the entries added to it
                          \* and what its last Get returned
    sst,                  \* SSTable files written by SSTableBuilder / SSTableMerger
                          \* and what the readers opened on them returned
    recovered,            \* what Database::Recover made of the WAL file walBytes
    skiplist,             \* a SkipList<int>, the thread inserting into it and a
                          \* thread reading it
    compactorSync,        \* Compactor::mutex_ and cv_, and the calls of Stop and
                          \* WaitForCompaction under way
    heldPage,             \* a Page a caller of the buffer pool holds: how it got
                          \* it, its header and slot directory, its last call
    callers               \* bookkeeping of the pool's callers: the pins they hold,
                          \* the frames they were handed, what they unpinned dirty
                          \* (`owed`, per page the data the file has to get)

dbVars == <<dbOpen, sequence_, memtable_, immutable_memtable_, heap, nextObj, wal_,
            levels_, next_file_number_, running_, pending_compaction_>>
diskVars == <<sstFiles, manifest, walFiles>>
ghostVars == <<history, snapshot, crashedAt, reopens>>
threadVars == <<write_mutex_, mutex_, pc, local, log>>
engineVars == <<dbVars, diskVars, ghostVars, threadVars>>
replacerVars == <<replacer, evicted>>
poolVars == <<bpm, bpmAlive, callers>>
walVars == <<walBytes, walReader, walCalls>>
bloomVars == <<bloom, table>>
manifestVars == <<vsWritten, vsFile, vsLoaded>>
soloVars == <<skiplist, compactorSync, heldPage>>
unitVars == <<memTable, sst, recovered, soloVars>>
storageVars == <<replacerVars, poolVars, walVars, bloomVars, manifestVars, unitVars>>

Levels == 0..(kMaxLevels - 1)

\* the program's state and the directory as one record, for the operators
\* below that model a statement or a run of statements
State ==
    [sequence_ |-> sequence_, memtable_ |-> memtable_,
     immutable_memtable_ |-> immutable_memtable_, heap |-> heap, nextObj |-> nextObj,
     wal_ |-> wal_, levels_ |-> levels_, next_file_number_ |-> next_file_number_,
     running_ |-> running_, pending_compaction_ |-> pending_compaction_,
     sstFiles |-> sstFiles, manifest |-> manifest, walFiles |-> walFiles]

SetState(s) ==
    /\ sequence_' = s.sequence_
    /\ memtable_' = s.memtable_
    /\ immutable_memtable_' = s.immutable_memtable_
    /\ heap' = s.heap
    /\ nextObj' = s.nextObj
    /\ wal_' = s.wal_
    /\ levels_' = s.levels_
    /\ next_file_number_' = s.next_file_number_
    /\ running_' = s.running_
    /\ pending_compaction_' = s.pending_compaction_
    /\ sstFiles' = s.sstFiles
    /\ manifest' = s.manifest
    /\ walFiles' = s.walFiles

\* the unprimed twin of SetState, for initial states
IsState(s) ==
    /\ sequence_ = s.sequence_
    /\ memtable_ = s.memtable_
    /\ immutable_memtable_ = s.immutable_memtable_
    /\ heap = s.heap
    /\ nextObj = s.nextObj
    /\ wal_ = s.wal_
    /\ levels_ = s.levels_
    /\ next_file_number_ = s.next_file_number_
    /\ running_ = s.running_
    /\ pending_compaction_ = s.pending_compaction_
    /\ sstFiles = s.sstFiles
    /\ manifest = s.manifest
    /\ walFiles = s.walFiles

FnPut(f, k, v) == [x \in (DOMAIN f) \cup {k} |-> IF x = k THEN v ELSE f[x]]
FnDel(f, ks) == [x \in (DOMAIN f) \ ks |-> f[x]]
EmptyFn == [x \in {} |-> 0]

(* --------------------------- LRU-K replacer ---------------------------- *)
\* timestamp_t is uint64_t; std::numeric_limits<timestamp_t>::max() is above
\* every timestamp the replacer hands out
TimestampMax == MaxTimestamp + 1

\* LRUKReplacer::LRUKReplacer
NewReplacer(num_frames, k) ==
    [num_frames_ |-> num_frames, k_ |-> k, current_timestamp_ |-> 0,
     access_history_ |-> <<>>, evictable_frames_ |-> {}]

\* the last n elements of a list: while (history.size() > k_) pop_front()
RECURSIVE KeepLast(_, _)
KeepLast(list, n) == IF Len(list) > n THEN KeepLast(Tail(list), n) ELSE list

\* LRUKReplacer::RecordAccess
RecordAccess(r, frame_id) ==
    LET ts == r.current_timestamp_ + 1
        old == IF frame_id \in DOMAIN r.access_history_
               THEN r.access_history_[frame_id] ELSE <<>>
        new == KeepLast(Append(old, ts), r.k_)
    IN [r EXCEPT !.current_timestamp_ = ts,
                 !.access_history_ =
                    [f \in DOMAIN @ \cup {frame_id} |-> IF f = frame_id THEN new ELSE @[f]]]

\* LRUKReplacer::SetEvictable
SetEvictable(r, frame_id, evictable) ==
    [r EXCEPT !.evictable_frames_ =
        IF evictable THEN @ \cup {frame_id} ELSE @ \ {frame_id}]

\* LRUKReplacer::Evict, lines 111-114: the locals of the loop
EvictLocals ==
    [victim |-> INVALID_FRAME_ID, max_k_distance |-> 0,
     earliest_first_access |-> TimestampMax, found_inf |-> FALSE]

\* LRUKReplacer::Evict, lines 116-150: the body of the loop for frame fid
EvictVisit(r, v, fid) ==
    IF fid \notin DOMAIN r.access_history_ \/ r.access_history_[fid] = <<>>
    THEN IF ~v.found_inf \/ fid < v.victim
         THEN [v EXCEPT !.victim = fid, !.found_inf = TRUE]
         ELSE v
    ELSE LET accesses == r.access_history_[fid]
         IN IF Len(accesses) < r.k_
            THEN IF ~v.found_inf \/ Head(accesses) < v.earliest_first_access
                 THEN [v EXCEPT !.victim = fid, !.earliest_first_access = Head(accesses),
                                !.found_inf = TRUE]
                 ELSE v
            ELSE IF ~v.found_inf
                    /\ r.current_timestamp_ - Head(accesses) > v.max_k_distance
                 THEN [v EXCEPT !.max_k_distance = r.current_timestamp_ - Head(accesses),
                                !.victim = fid]
                 ELSE v

\* the loop over evictable_frames_, an unordered_set, in the order `order`
RECURSIVE EvictLoop(_, _, _)
EvictLoop(r, v, order) ==
    IF order = <<>> THEN v
    ELSE EvictLoop(r, EvictVisit(r, v, Head(order)), Tail(order))

\* the orders in which an unordered_set holding S may be iterated
Orders(S) ==
    {o \in [1..Cardinality(S) -> S] : \A i, j \in 1..Cardinality(S) : i # j => o[i] # o[j]}

\* LRUKReplacer::Remove, and the end of Evict (lines 157-158)
ReplacerRemove(r, frame_id) ==
    [r EXCEPT !.evictable_frames_ = @ \ {frame_id},
              !.access_history_ = [f \in DOMAIN @ \ {frame_id} |-> @[f]]]

\* LRUKReplacer::Evict: what it returns, *frame_id, and the replacer after it
Evict(r, order) ==
    LET v == EvictLoop(r, EvictLocals, order)
    IN IF r.evictable_frames_ = {} \/ v.victim = INVALID_FRAME_ID
       THEN [ok |-> FALSE, frame_id |-> INVALID_FRAME_ID, replacer |-> r]
       ELSE [ok |-> TRUE, frame_id |-> v.victim, replacer |-> ReplacerRemove(r, v.victim)]

\* no Evict was called yet, or another call was made since
NoEvict == [called |-> FALSE, on |-> NewReplacer(0, 0), ok |-> FALSE,
            frame_id |-> INVALID_FRAME_ID]

(* ----------------------------- buffer pool ----------------------------- *)
\* the bytes of a page: the page id of its PageHeader (the first bytes of
\* data_) and the rest, 0 for zero bytes
ZeroPage == [page_id |-> 0, data |-> 0]

\* Page::ResetMemory
ResetMemory ==
    [page_id |-> INVALID_PAGE_ID, data |-> 0, pin_count_ |-> 0, is_dirty_ |-> FALSE]

\* BufferPoolManager::BufferPoolManager over a new file
NewBufferPool(pool_size, k) ==
    [pool_size_ |-> pool_size,
     pages_ |-> [f \in 0..(pool_size - 1) |-> ResetMemory],
     page_table_ |-> <<>>,
     free_list_ |-> [i \in 1..pool_size |-> i - 1],
     replacer_ |-> NewReplacer(pool_size, k),
     db_io_ |-> <<>>,
     next_page_id_ |-> 0]

\* DiskManager::ReadPage: what the file holds at page_id, zero bytes where
\* the file ends before it
ReadPage(b, page_id) ==
    IF page_id \in DOMAIN b.db_io_ THEN b.db_io_[page_id] ELSE ZeroPage

\* DiskManager::WritePage of the bytes of frame frame_id
WritePage(b, page_id, frame_id) ==
    [b EXCEPT !.db_io_ =
        [p \in DOMAIN @ \cup {page_id} |->
            IF p = page_id
            THEN [page_id |-> b.pages_[frame_id].page_id, data |-> b.pages_[frame_id].data]
            ELSE @[p]]]

\* FetchPage lines 156-163, NewPage lines 238-243: the evicted frame is
\* written back when dirty, under the page id its header holds, and that page
\* id is erased from the page table
WriteBack(b, frame_id) ==
    LET old_page == b.pages_[frame_id]
        b1 == IF old_page.is_dirty_ THEN WritePage(b, old_page.page_id, frame_id) ELSE b
    IN [b1 EXCEPT !.page_table_ = [p \in DOMAIN @ \ {old_page.page_id} |-> @[p]]]

\* FetchPage lines 143-164, NewPage lines 228-244: a frame from the free
\* list, else the replacer's victim
FindFrame(b, order) ==
    IF b.free_list_ # <<>>
    THEN [ok |-> TRUE, frame_id |-> Head(b.free_list_),
          pool |-> [b EXCEPT !.free_list_ = Tail(@)]]
    ELSE LET e == Evict(b.replacer_, order)
         IN IF ~e.ok THEN [ok |-> FALSE, frame_id |-> INVALID_FRAME_ID, pool |-> b]
            ELSE [ok |-> TRUE, frame_id |-> e.frame_id,
                  pool |-> WriteBack([b EXCEPT !.replacer_ = e.replacer], e.frame_id)]

\* BufferPoolManager::FetchPage: the frame it returns (INVALID_FRAME_ID for
\* nullptr) and the pool after it
FetchPage(b, page_id, order) ==
    IF page_id = INVALID_PAGE_ID THEN [frame_id |-> INVALID_FRAME_ID, pool |-> b]
    ELSE IF page_id \in DOMAIN b.page_table_
    THEN LET frame_id == b.page_table_[page_id]
         IN [frame_id |-> frame_id,
             pool |-> [b EXCEPT !.pages_[frame_id].pin_count_ = @ + 1,
                                !.replacer_ = RecordAccess(SetEvictable(@, frame_id, FALSE),
                                                           frame_id)]]
    ELSE LET found == FindFrame(b, order)
             frame_id == found.frame_id
             b1 == found.pool
             \* ResetMemory, SetPageId(page_id), then ReadPage into GetData():
             \* the header is part of the bytes read
             read == ReadPage(b1, page_id)
         IN IF ~found.ok THEN [frame_id |-> INVALID_FRAME_ID, pool |-> b]
            ELSE [frame_id |-> frame_id,
                  pool |-> [b1 EXCEPT
                    !.pages_[frame_id] = [page_id |-> read.page_id, data |-> read.data,
                                          pin_count_ |-> 1, is_dirty_ |-> FALSE],
                    !.page_table_ = FnPut(@, page_id, frame_id),
                    !.replacer_ = SetEvictable(RecordAccess(@, frame_id), frame_id, FALSE)]]

\* BufferPoolManager::UnpinPage
UnpinPage(b, page_id, is_dirty) ==
    IF page_id \notin DOMAIN b.page_table_ THEN [ok |-> FALSE, pool |-> b]
    ELSE LET frame_id == b.page_table_[page_id]
             page == b.pages_[frame_id]
         IN IF page.pin_count_ <= 0 THEN [ok |-> FALSE, pool |-> b]
            ELSE [ok |-> TRUE,
                  pool |-> [b EXCEPT
                    !.pages_[frame_id].pin_count_ = @ - 1,
                    !.pages_[frame_id].is_dirty_ = @ \/ is_dirty,
                    !.replacer_ = IF page.pin_count_ = 1
                                  THEN SetEvictable(@, frame_id, TRUE) ELSE @]]

\* BufferPoolManager::NewPage
NewPage(b, order) ==
    LET found == FindFrame(b, order)
        frame_id == found.frame_id
        b1 == found.pool
        new_page_id == b1.next_page_id_
    IN IF ~found.ok
       THEN [frame_id |-> INVALID_FRAME_ID, page_id |-> INVALID_PAGE_ID, pool |-> b]
       ELSE [frame_id |-> frame_id, page_id |-> new_page_id,
             pool |-> [b1 EXCEPT
                !.next_page_id_ = @ + 1,
                !.pages_[frame_id] = [page_id |-> new_page_id, data |-> 0,
                                      pin_count_ |-> 1, is_dirty_ |-> TRUE],
                !.page_table_ = FnPut(@, new_page_id, frame_id),
                !.replacer_ = SetEvictable(RecordAccess(@, frame_id), frame_id, FALSE)]]

\* BufferPoolManager::FlushPage
FlushPage(b, page_id) ==
    IF page_id \notin DOMAIN b.page_table_ THEN b
    ELSE [WritePage(b, page_id, b.page_table_[page_id]) EXCEPT
            !.pages_[b.page_table_[page_id]].is_dirty_ = FALSE]

\* BufferPoolManager::FlushAllPages: the loop over the entries of page_table_
\* that are in `todo`
RECURSIVE FlushAll(_, _)
FlushAll(b, todo) ==
    IF todo = {} THEN b
    ELSE LET page_id == CHOOSE p \in todo : TRUE
             next == IF b.pages_[b.page_table_[page_id]].is_dirty_
                     THEN FlushPage(b, page_id) ELSE b
         IN FlushAll(next, todo \ {page_id})

FlushAllPages(b) == FlushAll(b, DOMAIN b.page_table_)

\* BufferPoolManager::DeletePage (DiskManager::DeallocatePage only notes the
\* id in a list that nothing reads)
DeletePage(b, page_id) ==
    IF page_id \notin DOMAIN b.page_table_ THEN [ok |-> TRUE, pool |-> b]
    ELSE LET frame_id == b.page_table_[page_id]
         IN IF b.pages_[frame_id].pin_count_ > 0 THEN [ok |-> FALSE, pool |-> b]
            ELSE [ok |-> TRUE,
                  pool |-> [b EXCEPT
                    !.page_table_ = FnDel(@, {page_id}),
                    !.replacer_ = ReplacerRemove(@, frame_id),
                    !.pages_[frame_id] = ResetMemory,
                    !.free_list_ = Append(@, frame_id)]]

(* ----------------------------- slotted page ---------------------------- *)
\* page.hpp line 34
PAGE_SIZE == 4096
\* sizeof(PageHeader): int32_t, int64_t, three uint16_t and a uint32_t, with
\* the padding of the 8-byte alignment of lsn
HeaderSize == 32
\* sizeof(Slot): two uint16_t and a bool, 2-byte aligned
SlotSize == 6
\* the values of a slot_offset_t (uint16_t)
SlotOffsets == 65536
\* stands for a size_t of 2^64 - 131070 and more: above every tuple size
WrappedSize == 2147483647

\* the header fields and the slot directory in data_ after Page::ResetMemory,
\* and whether a tuple was copied to bytes outside data_
ResetPage ==
    [tuple_count |-> 0, free_space_pointer |-> PAGE_SIZE, slot_array_end |-> HeaderSize,
     slots |-> <<>>, outside |-> FALSE]

\* std::memset(page_data, 0, PAGE_SIZE) of DiskManager::ReadPage
ZeroFill(p) ==
    [p EXCEPT !.tuple_count = 0, !.free_space_pointer = 0, !.slot_array_end = 0,
              !.slots = <<>>]

\* no page is held yet
NoPage == [from |-> "none", data |-> ResetPage, died |-> FALSE,
           last |-> [op |-> "none", ret |-> 0]]

PageInit == heldPage = NoPage

(* --------------------------- WAL record format ------------------------- *)
\* a uint32_t is held as its four bytes, least significant first
\* a ^ b for two values of n bits
RECURSIVE XorBits(_, _, _)
XorBits(a, b, n) ==
    IF n = 0 THEN 0
    ELSE (((a % 2) + (b % 2)) % 2) + 2 * XorBits(a \div 2, b \div 2, n - 1)

Xor32(x, y) ==
    <<XorBits(x[1], y[1], 8), XorBits(x[2], y[2], 8),
      XorBits(x[3], y[3], 8), XorBits(x[4], y[4], 8)>>

\* crc >> 1 and crc >> 8
ShiftRight1(x) ==
    <<(x[1] \div 2) + (x[2] % 2) * 128, (x[2] \div 2) + (x[3] % 2) * 128,
      (x[3] \div 2) + (x[4] % 2) * 128, x[4] \div 2>>
ShiftRight8(x) == <<x[2], x[3], x[4], 0>>

\* 0xEDB88320, 0xFFFFFFFF and 0
kCRC32Polynomial == <<32, 131, 184, 237>>
AllOnes32 == <<255, 255, 255, 255>>
Zero32 == <<0, 0, 0, 0>>

\* GenerateCRC32Table, the inner loop: j more rounds of
\* crc = (crc >> 1) ^ (kCRC32Polynomial & (-(crc & 1)))
RECURSIVE CRC32Rounds(_, _)
CRC32Rounds(crc, j) ==
    IF j = 0 THEN crc
    ELSE CRC32Rounds(Xor32(ShiftRight1(crc),
                           IF crc[1] % 2 = 1 THEN kCRC32Polynomial ELSE Zero32), j - 1)

\* GenerateCRC32Table
kCRC32Table == [i \in 0..255 |-> CRC32Rounds(<<i, 0, 0, 0>>, 8)]

\* CalculateCRC32, the loop from byte i on; crc is a uint32_t in every round
RECURSIVE CRC32Loop(_, _, _)
CRC32Loop(crc, data, i) ==
    IF Len(crc) = 4 /\ i <= Len(data)
    THEN CRC32Loop(Xor32(kCRC32Table[XorBits(crc[1], data[i], 8)], ShiftRight8(crc)),
                   data, i + 1)
    ELSE crc

\* CalculateCRC32
CalculateCRC32(data) == Xor32(CRC32Loop(AllOnes32, data, 1), AllOnes32)

\* a verification that accepts every checksum
VerifyNothing(data, expected) == TRUE

\* VerifyCRC32
VerifyCRC32(data, expected) == CalculateCRC32(data) = expected

\* the bytes of a key or a value: the keys and values of the model are
\* one-byte strings, EmptyKey and EmptyValue the empty string
Bytes(x) == IF x = 0 THEN <<>> ELSE <<x>>

\* WALWriter::Append: an n-byte little-endian number
RECURSIVE EncodeFixed(_, _)
EncodeFixed(x, n) == IF n = 0 THEN <<>> ELSE <<x % 256>> \o EncodeFixed(x \div 256, n - 1)

\* WALReader::ReadRecord: the uint32_t of four little-endian bytes; every
\* number of 2^31 and more is a length far beyond the end of the file and is
\* held as 2^31 - 1
Decode32(buf) ==
    IF buf[4] >= 128 THEN 2147483647
    ELSE buf[1] + 256 * buf[2] + 65536 * buf[3] + 16777216 * buf[4]

\* the SequenceNumber of eight little-endian bytes, for the numbers below
\* 2^24 the model uses
Decode64(buf) == buf[1] + 256 * buf[2] + 65536 * buf[3]

\* WALWriter::Append: the bytes after the CRC field
RecordBody(type, key, value, sequence) ==
    EncodeFixed(sequence, 8) \o <<type>> \o EncodeFixed(Len(key), 4) \o key
        \o EncodeFixed(Len(value), 4) \o value

\* WALWriter::Append: the bytes written to the file
EncodeRecord(type, key, value, sequence) ==
    CalculateCRC32(RecordBody(type, key, value, sequence))
        \o RecordBody(type, key, value, sequence)

\* WALReader over a file it has just opened
NewReader == [pos |-> 0, eof |-> FALSE, delivered |-> <<>>, statuses |-> <<>>]

\* ReadRecord returns a non-ok status; `short`: a read got fewer bytes than
\* asked for, which leaves the stream at the end of the file with eofbit and
\* failbit set
ReadFails(file, rd, status, short, pos) ==
    [rd EXCEPT !.statuses = Append(@, status),
               !.eof = @ \/ short,
               !.pos = IF short THEN Len(file) ELSE pos]

\* WALReader::ReadRecord (the strings for key and value are always
\* allocated)
ReadRecord(file, rd) ==
    LET avail(p) == Len(file) - p
        field(p, n) == SubSeq(file, p + 1, p + n)
        p1 == rd.pos + 4
        p2 == p1 + 8
        p3 == p2 + 1
        p4 == p3 + 4
        key_len == Decode32(field(p3, 4))
        p5 == p4 + key_len
        p6 == p5 + 4
        val_len == Decode32(field(p5, 4))
        p7 == p6 + val_len
    IN IF rd.eof \/ avail(rd.pos) < 4 THEN ReadFails(file, rd, "NotFound", TRUE, 0)
       ELSE IF avail(p1) < 8 \/ avail(p2) < 1 \/ avail(p3) < 4
       THEN ReadFails(file, rd, "Corruption", TRUE, 0)
       ELSE IF avail(p4) < key_len \/ avail(p5) < 4
       THEN ReadFails(file, rd, "Corruption", TRUE, 0)
       ELSE IF avail(p6) < val_len THEN ReadFails(file, rd, "Corruption", TRUE, 0)
       ELSE IF ~VerifyCRC32(field(p1, p7 - p1), field(rd.pos, 4))
       THEN ReadFails(file, rd, "Corruption", FALSE, p7)
       ELSE [rd EXCEPT
                !.pos = p7,
                !.statuses = Append(@, "Ok"),
                !.delivered = Append(@, [type |-> file[p2 + 1], key |-> field(p4, key_len),
                                         value |-> field(p6, val_len),
                                         sequence |-> Decode64(field(p1, 8))])]

\* WALReader::HasMore: the stream is not at its end (peek sets eofbit there)
HasMore(file, rd) == ~rd.eof /\ rd.pos < Len(file)

\* WALReader::ForEach with the callback of Database::Recover, which returns
\* Ok for every record: the status ForEach returns and the reader it leaves
RECURSIVE ForEach(_, _)
ForEach(file, rd) ==
    IF ~HasMore(file, rd) THEN [status |-> "Ok", reader |-> rd]
    ELSE LET next == ReadRecord(file, rd)
             status == next.statuses[Len(next.statuses)]
         IN IF Len(next.statuses) > 0 /\ status = "NotFound"
            THEN [status |-> "Ok", reader |-> next]
            ELSE IF status # "Ok" THEN [status |-> status, reader |-> next]
            ELSE ForEach(file, next)

\* the largest sequence number of the records, 0 for none (what Recover
\* leaves in sequence_ of a fresh database)
RECURSIVE MaxSequence(_)
MaxSequence(records) ==
    IF records = <<>> THEN 0
    ELSE LET rest == MaxSequence(Tail(records))
         IN IF records[1].sequence > rest THEN records[1].sequence ELSE rest

\* Database::Recover over one WAL file: the records it adds to the memtable,
\* sequence_, the status of ForEach that it logs and the status it returns
RecoverFile(file) ==
    LET s == ForEach(file, NewReader)
    IN [called |-> TRUE, file |-> file, added |-> s.reader.delivered,
        sequence_ |-> MaxSequence(s.reader.delivered), warned |-> s.status,
        status |-> "Ok"]

(* ----------------------------- bloom filter ---------------------------- *)
\* bit i (0 the least significant) of a uint32_t
Bit(x, i) == (x[(i \div 8) + 1] \div (2 ^ (i % 8))) % 2

\* the uint32_t whose bit i is f[i]
ByteOf(f, k) ==
    f[8 * k] + 2 * f[8 * k + 1] + 4 * f[8 * k + 2] + 8 * f[8 * k + 3] + 16 * f[8 * k + 4]
        + 32 * f[8 * k + 5] + 64 * f[8 * k + 6] + 128 * f[8 * k + 7]
Word(f) == <<ByteOf(f, 0), ByteOf(f, 1), ByteOf(f, 2), ByteOf(f, 3)>>

\* x >> r
ShiftRight(x, r) == Word([i \in 0..31 |-> IF i + r < 32 THEN Bit(x, i + r) ELSE 0])

\* rotl32
rotl32(x, r) == Word([i \in 0..31 |-> Bit(x, (i + 32 - r) % 32)])

\* x * y and x + y on uint32_t
Mul32(x, y) ==
    LET s1 == x[1] * y[1]
        s2 == x[1] * y[2] + x[2] * y[1] + (s1 \div 256)
        s3 == x[1] * y[3] + x[2] * y[2] + x[3] * y[1] + (s2 \div 256)
        s4 == x[1] * y[4] + x[2] * y[3] + x[3] * y[2] + x[4] * y[1] + (s3 \div 256)
    IN <<s1 % 256, s2 % 256, s3 % 256, s4 % 256>>
Add32(x, y) ==
    LET s1 == x[1] + y[1]
        s2 == x[2] + y[2] + (s1 \div 256)
        s3 == x[3] + y[3] + (s2 \div 256)
        s4 == x[4] + y[4] + (s3 \div 256)
    IN <<s1 % 256, s2 % 256, s3 % 256, s4 % 256>>

\* fmix32, with 0x85ebca6b and 0xc2b2ae35
fmix32(h) ==
    LET a == Mul32(Xor32(h, ShiftRight(h, 16)), <<107, 202, 235, 133>>)
        b == Mul32(Xor32(a, ShiftRight(a, 13)), <<53, 174, 178, 194>>)
    IN Xor32(b, ShiftRight(b, 16))

\* MurmurHash3_32: k1 *= c1; k1 = rotl32(k1, 15); k1 *= c2, with
\* c1 = 0xcc9e2d51 and c2 = 0x1b873593
MixK1(k1) == Mul32(rotl32(Mul32(k1, <<81, 45, 158, 204>>), 15), <<147, 53, 135, 27>>)

\* MurmurHash3_32, the body: the four-byte blocks from block i on (a block
\* is copied into k1 as it lies in memory, least significant byte first)
RECURSIVE MurmurBody(_, _, _)
MurmurBody(h1, key, i) ==
    IF Len(h1) = 4 /\ i <= Len(key) \div 4
    THEN MurmurBody(Add32(Mul32(rotl32(Xor32(h1, MixK1(SubSeq(key, 4 * i - 3, 4 * i))), 13),
                                <<5, 0, 0, 0>>),
                          <<100, 107, 84, 230>>),
                    key, i + 1)
    ELSE h1

\* MurmurHash3_32, the tail: the last len & 3 bytes
MurmurTail(h1, key) ==
    LET n == Len(key) % 4
        tail == SubSeq(key, Len(key) - n + 1, Len(key))
        k1 == <<tail[1], IF n >= 2 THEN tail[2] ELSE 0, IF n = 3 THEN tail[3] ELSE 0, 0>>
    IN IF n = 0 THEN h1 ELSE Xor32(h1, MixK1(k1))

\* MurmurHash3_32
MurmurHash3_32(key, seed) ==
    fmix32(Xor32(MurmurTail(MurmurBody(seed, key, 1), key), EncodeFixed(Len(key), 4)))

\* BloomFilter::HashKey
HashKey(key) ==
    LET h1 == MurmurHash3_32(key, Zero32)
    IN [h1 |-> h1, h2 |-> MurmurHash3_32(key, h1)]

\* x % n for a uint32_t x
Mod32(x, n) == ((((((x[4] % n) * 256 + x[3]) % n) * 256 + x[2]) % n) * 256 + x[1]) % n

\* AddKey / MayContain: (h1 + i * h2) % num_bits, computed in size_t, where
\* the sum does not wrap
BitPos(h, i, num_bits) == (Mod32(h.h1, num_bits) + i * Mod32(h.h2, num_bits)) % num_bits

\* bits_[bit_pos / 8] & (1 << (bit_pos % 8))
TestBit(bits, bit_pos) == (bits[(bit_pos \div 8) + 1] \div (2 ^ (bit_pos % 8))) % 2 = 1

\* bits_[bit_pos / 8] |= (1 << (bit_pos % 8))
SetBit(bits, bit_pos) ==
    IF TestBit(bits, bit_pos) THEN bits
    ELSE [bits EXCEPT ![(bit_pos \div 8) + 1] = @ + 2 ^ (bit_pos % 8)]

\* BloomFilter::AddKey, the loop from hash i on
RECURSIVE AddKeyLoop(_, _, _, _)
AddKeyLoop(bits, h, i, num_hashes) ==
    IF Len(bits) >= 0 /\ i < num_hashes
    THEN AddKeyLoop(SetBit(bits, BitPos(h, i, Len(bits) * 8)), h, i + 1, num_hashes)
    ELSE bits

\* an AddKey that sets no bit
AddNothing(filter, key) == filter

\* BloomFilter::AddKey
AddKey(filter, key) ==
    [filter EXCEPT !.bits_ = AddKeyLoop(@, HashKey(key), 0, filter.num_hashes_)]

\* BloomFilter::MayContain
BloomMayContain(filter, key) ==
    LET h == HashKey(key)
    IN \A i \in 0..(filter.num_hashes_ - 1) :
            TestBit(filter.bits_, BitPos(h, i, Len(filter.bits_) * 8))

\* BloomFilter::Create, the number of hash functions:
\* ceil(bits_per_key * 0.693147), at least 1 and at most 30
NumHashes(bits_per_key) ==
    LET n == (bits_per_key * 693147 + 999999) \div 1000000
    IN IF n < 1 THEN 1 ELSE IF n > 30 THEN 30 ELSE n

\* BloomFilter::Create, the loop that adds the keys from key i on
RECURSIVE AddKeys(_, _, _)
AddKeys(filter, keys, i) ==
    IF Len(filter.bits_) >= 0 /\ i <= Len(keys)
    THEN AddKeys(AddKey(filter, keys[i]), keys, i + 1)
    ELSE filter

\* BloomFilter::Create
BloomCreate(keys, bits_per_key) ==
    LET num_bytes == (Len(keys) * bits_per_key + 7) \div 8
    IN AddKeys([bits_ |-> [i \in 1..(IF num_bytes < 8 THEN 8 ELSE num_bytes) |-> 0],
                num_hashes_ |-> NumHashes(bits_per_key),
                num_keys_ |-> Len(keys)],
               keys, 1)

\* BloomFilter::Serialize
Serialize(filter) == EncodeFixed(filter.num_hashes_, 4) \o filter.bits_

\* nullptr of a std::unique_ptr<BloomFilter>: the filter without bits, which
\* no live filter is (Create makes at least 8 bytes, Deserialize at least 1)
NoFilter == [bits_ |-> <<>>, num_hashes_ |-> 0, num_keys_ |-> 0]

\* BloomFilter::Deserialize
Deserialize(data) ==
    IF Len(data) < 5 THEN NoFilter
    ELSE [bits_ |-> SubSeq(data, 5, Len(data)),
          num_hashes_ |-> Decode32(SubSeq(data, 1, 4)),
          num_keys_ |-> 0]

\* SSTableBuilder::Add, over the keys from key i on: the entries of the data
\* block, each with an empty value
RECURSIVE DataBlock(_, _)
DataBlock(keys, i) ==
    IF i > Len(keys) THEN <<>>
    ELSE EncodeFixed(Len(keys[i]), 4) \o keys[i] \o EncodeFixed(0, 4) \o DataBlock(keys, i + 1)

\* IndexEntry::Encode
IndexEntryEncode(first_key, block_offset, block_size) ==
    EncodeFixed(Len(first_key), 4) \o first_key \o EncodeFixed(block_offset, 8)
        \o EncodeFixed(block_size, 8)

\* SSTableBuilder::FlushBlock and WriteIndexBlock: the data block, if it is
\* not empty, and the index block
DataAndIndex(keys) ==
    IF keys = <<>> THEN EncodeFixed(0, 4)
    ELSE DataBlock(keys, 1) \o EncodeFixed(1, 4)
            \o IndexEntryEncode(keys[1], 0, Len(DataBlock(keys, 1)))

\* SSTableFooter::Encode
FooterEncode(footer) ==
    EncodeFixed(footer.data_block_offset, 8) \o EncodeFixed(footer.data_block_size, 8)
        \o EncodeFixed(footer.index_block_offset, 8) \o EncodeFixed(footer.index_block_size, 8)
        \o EncodeFixed(footer.bloom_filter_offset, 8) \o EncodeFixed(footer.bloom_filter_size, 8)
        \o EncodeFixed(footer.entry_count, 8) \o EncodeFixed(footer.magic_number, 4)

\* SSTableFooter::Decode
FooterDecode(data) ==
    [data_block_offset |-> Decode64(SubSeq(data, 1, 8)),
     data_block_size |-> Decode64(SubSeq(data, 9, 16)),
     index_block_offset |-> Decode64(SubSeq(data, 17, 24)),
     index_block_size |-> Decode64(SubSeq(data, 25, 32)),
     bloom_filter_offset |-> Decode64(SubSeq(data, 33, 40)),
     bloom_filter_size |-> Decode64(SubSeq(data, 41, 48)),
     entry_count |-> Decode64(SubSeq(data, 49, 56)),
     magic_number |-> Decode32(SubSeq(data, 57, 60))]

\* SSTableBuilder::Finish: the bytes of the file, all keys in one data block
FinishBytes(keys, bits_per_key) ==
    LET data_size == IF keys = <<>> THEN 0 ELSE Len(DataBlock(keys, 1))
        bloom_offset_ == Len(DataAndIndex(keys))
        bloom_data == Serialize(BloomCreate(keys, bits_per_key))
    IN DataAndIndex(keys) \o bloom_data
        \o FooterEncode([data_block_offset |-> 0,
                         data_block_size |-> data_size,
                         index_block_offset |-> data_size,
                         index_block_size |-> bloom_offset_ - data_size,
                         bloom_filter_offset |-> bloom_offset_,
                         bloom_filter_size |-> Len(bloom_data),
                         entry_count |-> Len(keys),
                         magic_number |-> kMagicNumber])

\* SSTableReader::ReadBlock: past the end of the file the block keeps its
\* zero bytes
ReadBlock(file, offset, size) ==
    [i \in 1..size |-> IF offset + i <= Len(file) THEN file[offset + i] ELSE 0]

\* SSTableReader::ReadIndex, the loop over the n entries still to be decoded
\* at `offset` of the index block: does IndexEntry::Decode accept them all
RECURSIVE IndexEntriesOk(_, _, _)
IndexEntriesOk(data, offset, n) ==
    \/ n = 0
    \/ /\ Len(data) - offset >= 20
       /\ 4 + Decode32(SubSeq(data, offset + 1, offset + 4)) + 16 <= Len(data) - offset
       /\ IndexEntriesOk(data, offset + 4 + Decode32(SubSeq(data, offset + 1, offset + 4)) + 16,
                         n - 1)

\* SSTableReader::ReadIndex: is the status ok
ReadIndexOk(file, footer) ==
    LET data == ReadBlock(file, footer.index_block_offset, footer.index_block_size)
    IN Len(data) >= 4 /\ IndexEntriesOk(data, 4, Decode32(SubSeq(data, 1, 4)))

\* SSTableReader::Initialize: the status and the reader's bloom_filter_
ReaderInitialize(file) ==
    LET footer == FooterDecode(SubSeq(file, Len(file) - kFooterEncodedLength + 1, Len(file)))
        filter == Deserialize(ReadBlock(file, footer.bloom_filter_offset,
                                        footer.bloom_filter_size))
    IN IF Len(file) < kFooterEncodedLength \/ footer.magic_number # kMagicNumber
            \/ ~ReadIndexOk(file, footer) \/ filter = NoFilter
       THEN [status |-> "Corruption", bloom_filter_ |-> NoFilter]
       ELSE [status |-> "Ok", bloom_filter_ |-> filter]

(* --------------------- SSTable files, entry by entry ------------------- *)
\* std::string operator< on byte strings
RECURSIVE StringLess(_, _)
StringLess(a, b) ==
    IF b = <<>> THEN FALSE
    ELSE IF a = <<>> THEN TRUE
    ELSE IF a[1] # b[1] THEN a[1] < b[1]
    ELSE StringLess(Tail(a), Tail(b))

\* SSTableBuilder::SSTableBuilder with Options{block_size}; `file` are the
\* bytes written to file_ so far
NewBuilder(block_size) ==
    [options_ |-> [block_size |-> block_size,
                   bloom_bits_per_key |-> kBloomFilterBitsPerKey],
     file |-> <<>>, offset_ |-> 0, data_block_ |-> <<>>, index_entries_ |-> <<>>,
     first_key_in_block_ |-> <<>>, entries_in_block_ |-> 0, num_entries_ |-> 0,
     keys_for_bloom_ |-> <<>>, finished_ |-> FALSE]

\* SSTableBuilder::FlushBlock
FlushBlock(b) ==
    IF b.data_block_ = <<>> THEN b
    ELSE [b EXCEPT
            !.index_entries_ = Append(@, [first_key |-> b.first_key_in_block_,
                                          block_offset |-> b.offset_,
                                          block_size |-> Len(b.data_block_)]),
            !.first_key_in_block_ = <<>>,
            !.file = @ \o b.data_block_,
            !.offset_ = @ + Len(b.data_block_),
            !.data_block_ = <<>>,
            !.entries_in_block_ = 0]

\* SSTableBuilder::Add
SSTableBuilderAdd(b, key, value) ==
    LET b1 == [b EXCEPT
                !.first_key_in_block_ = IF b.entries_in_block_ = 0 THEN key ELSE @,
                !.keys_for_bloom_ = Append(@, key),
                !.data_block_ = @ \o EncodeFixed(Len(key), 4) \o key
                                  \o EncodeFixed(Len(value), 4) \o value,
                !.num_entries_ = @ + 1,
                !.entries_in_block_ = @ + 1]
    IN IF Len(b1.data_block_) >= b1.options_.block_size THEN FlushBlock(b1) ELSE b1

\* SSTableBuilder::WriteIndexBlock, the encoded entries from entry i on
RECURSIVE IndexEntriesEncode(_, _)
IndexEntriesEncode(entries, i) ==
    IF i > Len(entries) THEN <<>>
    ELSE IndexEntryEncode(entries[i].first_key, entries[i].block_offset,
                          entries[i].block_size)
            \o IndexEntriesEncode(entries, i + 1)

\* SSTableBuilder::Finish: FlushBlock, WriteIndexBlock, WriteBloomFilter and
\* WriteFooter
SSTableBuilderFinish(b) ==
    LET b1 == FlushBlock(b)
        index_offset_ == b1.offset_
        index_data == EncodeFixed(Len(b1.index_entries_), 4)
                        \o IndexEntriesEncode(b1.index_entries_, 1)
        bloom_offset_ == index_offset_ + Len(index_data)
        bloom_data == Serialize(BloomCreate(b1.keys_for_bloom_,
                                            b1.options_.bloom_bits_per_key))
        footer_data == FooterEncode([data_block_offset |-> 0,
                                     data_block_size |-> index_offset_,
                                     index_block_offset |-> index_offset_,
                                     index_block_size |-> bloom_offset_ - index_offset_,
                                     bloom_filter_offset |-> bloom_offset_,
                                     bloom_filter_size |-> Len(bloom_data),
                                     entry_count |-> b1.num_entries_,
                                     magic_number |-> kMagicNumber])
    IN [b1 EXCEPT !.file = @ \o index_data \o bloom_data \o footer_data,
                  !.offset_ = bloom_offset_ + Len(bloom_data) + Len(footer_data),
                  !.finished_ = TRUE]

\* SSTableReader::ReadIndex, the n entries still to be decoded at `offset` of
\* the index block (IndexEntry::Decode)
RECURSIVE DecodeIndex(_, _, _)
DecodeIndex(data, offset, n) ==
    IF n = 0 THEN <<>>
    ELSE LET key_len == Decode32(SubSeq(data, offset + 1, offset + 4))
             at == offset + 4 + key_len
         IN <<[first_key |-> SubSeq(data, offset + 5, at),
               block_offset |-> Decode64(SubSeq(data, at + 1, at + 8)),
               block_size |-> Decode64(SubSeq(data, at + 9, at + 16))]>>
                \o DecodeIndex(data, at + 16, n - 1)

\* SSTableReader::Open: the reader with its footer_, index_ and bloom_filter_
SSTableReaderOpen(file) ==
    LET r == ReaderInitialize(file)
        footer == FooterDecode(SubSeq(file, Len(file) - kFooterEncodedLength + 1, Len(file)))
        data == ReadBlock(file, footer.index_block_offset, footer.index_block_size)
    IN IF r.status # "Ok"
       THEN [status |-> r.status, file |-> file, entry_count |-> 0, index_ |-> <<>>,
             bloom_filter_ |-> NoFilter]
       ELSE [status |-> "Ok", file |-> file, entry_count |-> footer.entry_count,
             index_ |-> DecodeIndex(data, 4, Decode32(SubSeq(data, 1, 4))),
             bloom_filter_ |-> r.bloom_filter_]

\* SSTableIteratorImpl right after its constructor (SSTableReader::NewIterator)
NewSSTableIterator ==
    [valid_ |-> FALSE, block_index_ |-> 0, entry_index_ |-> 0, block_data_ |-> <<>>,
     offset_in_block_ |-> 0, current_key_ |-> <<>>, current_value_ |-> <<>>]

\* a LoadBlock that finds no block
LoadNoBlock(rd, it, index) == [it EXCEPT !.block_data_ = <<>>, !.valid_ = FALSE]

\* SSTableIteratorImpl::LoadBlock
LoadBlock(rd, it, index) ==
    IF index >= Len(rd.index_) THEN [it EXCEPT !.block_data_ = <<>>, !.valid_ = FALSE]
    ELSE [it EXCEPT !.block_data_ = ReadBlock(rd.file, rd.index_[index + 1].block_offset,
                                              rd.index_[index + 1].block_size),
                    !.offset_in_block_ = 0]

\* SSTableIteratorImpl::ParseCurrentEntry: what it returns, and the iterator
ParseCurrentEntry(it) ==
    LET data == it.block_data_
        o1 == it.offset_in_block_ + 4
        key_len == Decode32(SubSeq(data, o1 - 3, o1))
        o2 == o1 + key_len
        o3 == o2 + 4
        val_len == Decode32(SubSeq(data, o2 + 1, o3))
    IN IF it.offset_in_block_ + 8 > Len(data)
       THEN [ok |-> FALSE, it |-> [it EXCEPT !.valid_ = FALSE]]
       ELSE IF o1 + key_len + 4 > Len(data)
       THEN [ok |-> FALSE, it |-> [it EXCEPT !.valid_ = FALSE, !.offset_in_block_ = o1]]
       ELSE IF o3 + val_len > Len(data)
       THEN [ok |-> FALSE, it |-> [it EXCEPT !.valid_ = FALSE, !.offset_in_block_ = o3,
                                             !.current_key_ = SubSeq(data, o1 + 1, o2)]]
       ELSE [ok |-> TRUE, it |-> [it EXCEPT !.valid_ = TRUE,
                                            !.offset_in_block_ = o3 + val_len,
                                            !.current_key_ = SubSeq(data, o1 + 1, o2),
                                            !.current_value_ = SubSeq(data, o3 + 1, o3 + val_len)]]

\* SSTableIteratorImpl::SeekToFirst
SeekToFirst(rd, it) ==
    LET it1 == LoadBlock(rd, [it EXCEPT !.block_index_ = 0, !.entry_index_ = 0], 0)
    IN IF it1.block_data_ # <<>> THEN ParseCurrentEntry(it1).it ELSE it1

\* Seek and Next, when the block is used up: the first entry of the next
\* block, if there is one
NextBlock(rd, it) ==
    IF it.block_index_ + 1 < Len(rd.index_)
    THEN ParseCurrentEntry(
            [LoadBlock(rd, [it EXCEPT !.block_index_ = @ + 1], it.block_index_ + 1)
                EXCEPT !.entry_index_ = 0, !.offset_in_block_ = 0]).it
    ELSE [it EXCEPT !.valid_ = FALSE]

\* SSTableIteratorImpl::Next
SSTableNext(rd, it) ==
    LET p == ParseCurrentEntry([it EXCEPT !.entry_index_ = @ + 1])
    IN IF p.ok THEN p.it
       ELSE IF p.it.block_index_ + 1 < Len(rd.index_) THEN NextBlock(rd, p.it)
       ELSE [p.it EXCEPT !.block_index_ = @ + 1, !.valid_ = FALSE]

\* SSTableReader::FindBlock, the binary search over index_ (0-based result)
RECURSIVE FindBlockLoop(_, _, _, _)
FindBlockLoop(index, key, left, right) ==
    IF left < right
    THEN LET mid == left + (right - left) \div 2
         IN IF ~StringLess(key, index[mid + 1].first_key)
            THEN FindBlockLoop(index, key, mid + 1, right)
            ELSE FindBlockLoop(index, key, left, mid)
    ELSE IF left > 0 THEN left - 1 ELSE 0

\* SSTableIteratorImpl::Seek, the linear search within the block
RECURSIVE SeekLoop(_, _)
SeekLoop(it, key) ==
    LET p == ParseCurrentEntry(it)
    IN IF ~p.ok THEN p
       ELSE IF ~StringLess(p.it.current_key_, key) THEN p
       ELSE SeekLoop([p.it EXCEPT !.entry_index_ = @ + 1], key)

\* SSTableIteratorImpl::Seek
SSTableIteratorSeek(rd, it, key) ==
    IF rd.index_ = <<>> THEN [it EXCEPT !.valid_ = FALSE]
    ELSE LET block == FindBlockLoop(rd.index_, key, 0, Len(rd.index_))
             it1 == [LoadBlock(rd, [it EXCEPT !.block_index_ = block], block)
                        EXCEPT !.entry_index_ = 0, !.offset_in_block_ = 0]
             p == SeekLoop(it1, key)
         IN IF p.ok THEN p.it ELSE NextBlock(rd, p.it)

\* SSTableReader::Get
SSTableReaderGet(rd, key) ==
    IF rd.bloom_filter_ # NoFilter /\ ~BloomMayContain(rd.bloom_filter_, key)
    THEN [ok |-> FALSE, value |-> <<>>]
    ELSE LET it == SSTableIteratorSeek(rd, NewSSTableIterator, key)
         IN IF it.valid_ /\ it.current_key_ = key
            THEN [ok |-> TRUE, value |-> it.current_value_]
            ELSE [ok |-> FALSE, value |-> <<>>]

\* the entries an iterator yields from where it stands to the end of the file
RECURSIVE ScanLoop(_, _, _)
ScanLoop(rd, it, out) ==
    IF ~it.valid_ THEN out
    ELSE ScanLoop(rd, SSTableNext(rd, it),
                  Append(out, [key |-> it.current_key_, value |-> it.current_value_]))

\* SeekToFirst, then Next while the iterator is Valid
ScanTable(rd) == ScanLoop(rd, SeekToFirst(rd, NewSSTableIterator), <<>>)

\* a merge that always takes the first iterator
FirstIndex(iters, i, min_idx) == min_idx

\* SSTableMerger::Merge, lines 425-431: the index of the first iterator that
\* has the smallest key
RECURSIVE MinIndex(_, _, _)
MinIndex(iters, i, min_idx) ==
    IF i > Len(iters) THEN min_idx
    ELSE MinIndex(iters, i + 1,
                  IF StringLess(iters[i].it.current_key_, iters[min_idx].it.current_key_)
                  THEN i ELSE min_idx)

\* SSTableMerger::Merge, the loop: iters are the iterators that are Valid,
\* each with its reader
RECURSIVE MergeIterators(_, _)
MergeIterators(iters, builder) ==
    IF iters = <<>> THEN builder
    ELSE LET m == MinIndex(iters, 2, 1)
             next == SSTableNext(iters[m].rd, iters[m].it)
         IN MergeIterators(
                IF next.valid_ THEN [iters EXCEPT ![m].it = next]
                ELSE SubSeq(iters, 1, m - 1) \o SubSeq(iters, m + 1, Len(iters)),
                SSTableBuilderAdd(builder, iters[m].it.current_key_,
                                  iters[m].it.current_value_))

\* SSTableMerger::Merge, lines 414-423: the iterators that are Valid after
\* SeekToFirst
RECURSIVE ValidIterators(_, _)
ValidIterators(readers, i) ==
    IF i > Len(readers) THEN <<>>
    ELSE LET it == SeekToFirst(readers[i], NewSSTableIterator)
         IN (IF it.valid_ THEN <<[rd |-> readers[i], it |-> it]>> ELSE <<>>)
                \o ValidIterators(readers, i + 1)

\* SSTableMerger::Merge: the output file
SSTableMerge(readers) ==
    SSTableBuilderFinish(MergeIterators(ValidIterators(readers, 1),
                                        NewBuilder(kSSTableBlockSize))).file

(* ------------------------------ skiplist ------------------------------- *)
\* SkipList<int> of src/include/mydb/engine/skiplist.hpp.  Nodes are numbered
\* in the order NewNode allocates them; head_ is node 0.
head_ == 0
nullptr == -1
\* what a word of memory holds that nothing was stored into yet
Garbage == -2

SkipKeys == 1..MaxSkipKey
SkipNodes == 0..MaxSkipNodes
\* the levels RandomHeight can reach in the runs
SkipLevels == 0..(MaxSkipHeight - 1)

\* SkipList::SkipList: the head with every link null, max_height_ 1
NewSkipList ==
    [key |-> [n \in SkipNodes |-> 0],
     height |-> [n \in SkipNodes |-> IF n = head_ THEN MaxSkipHeight ELSE 0],
     next_ |-> [n \in SkipNodes |-> [l \in SkipLevels |-> IF n = head_ THEN nullptr ELSE Garbage]],
     max_height_ |-> 1,
     allocated |-> 0]

\* Node::Next
NodeNext(sl, n, level) == sl.next_[n][level]

\* Node::SetNext, and the relaxed store of Insert line 63
SetNext(sl, n, level, node) == [sl EXCEPT !.next_[n][level] = node]

\* SkipList::KeyIsAfterNode with std::less<int>
KeyIsAfterNode(sl, key, n) == n # nullptr /\ sl.key[n] < key

\* SkipList::Equal
Equal(a, b) == ~(a < b) /\ ~(b < a)

\* SkipList::GetMaxHeight
GetMaxHeight(sl) == sl.max_height_

\* SkipList::NewNode: the key is set, the links are not
NewNode(sl, key, height) ==
    [sl EXCEPT !.allocated = @ + 1, !.key[sl.allocated + 1] = key,
               !.height[sl.allocated + 1] = height]

\* one round of the loop of SkipList::FindGreaterOrEqual without prev: the
\* load of x->Next(level) and what follows it
FindRound(sl, key, x, level) ==
    LET next == NodeNext(sl, x, level)
    IN IF next = Garbage \/ (next # nullptr /\ next > sl.allocated)
       THEN [returned |-> FALSE, wild |-> TRUE, x |-> x, level |-> level, node |-> next]
       ELSE IF KeyIsAfterNode(sl, key, next)
       THEN [returned |-> FALSE, wild |-> FALSE, x |-> next, level |-> level, node |-> next]
       ELSE IF level = 0
       THEN [returned |-> TRUE, wild |-> FALSE, x |-> x, level |-> level, node |-> next]
       ELSE [returned |-> FALSE, wild |-> FALSE, x |-> x, level |-> level - 1, node |-> next]

\* SkipList::FindGreaterOrEqual with prev, as the inserting thread runs it
RECURSIVE FindWithPrev(_, _, _, _, _)
FindWithPrev(sl, key, x, level, prev) ==
    LET next == NodeNext(sl, x, level)
    IN IF KeyIsAfterNode(sl, key, next)
       THEN FindWithPrev(sl, key, next, level, prev)
       ELSE IF level = 0
       THEN [node |-> next, prev |-> [prev EXCEPT ![level] = x]]
       ELSE FindWithPrev(sl, key, x, level - 1, [prev EXCEPT ![level] = x])

\* Insert lines 57-60: the levels above the old height start at the head
RaiseHeight(sl, prev, height) ==
    IF height > GetMaxHeight(sl)
    THEN [list |-> [sl EXCEPT !.max_height_ = height],
          prev |-> [l \in SkipLevels |->
                        IF l >= GetMaxHeight(sl) /\ l < height THEN head_ ELSE prev[l]]]
    ELSE [list |-> sl, prev |-> prev]

\* a node whose own link is left as it was allocated
StoreNoNext(sl, x, i, prev) == sl

\* Insert line 63: x->next_[i].store(prev[i]->Next(i))
StoreOwnNext(sl, x, i, prev) == SetNext(sl, x, i, NodeNext(sl, prev[i], i))

\* Insert line 64: prev[i]->SetNext(i, x)
LinkNode(sl, x, i, prev) == SetNext(sl, prev[i], i, x)

\* the nodes a walk along the links of a level visits, from node n on; a link
\* that holds no node ends the walk with Garbage
RECURSIVE Chain(_, _, _, _)
Chain(sl, n, level, fuel) ==
    IF n = nullptr THEN <<>>
    ELSE IF n = Garbage \/ n > sl.allocated \/ fuel = 0 THEN <<Garbage>>
    ELSE <<n>> \o Chain(sl, NodeNext(sl, n, level), level, fuel - 1)

ChainAt(sl, level) == Chain(sl, NodeNext(sl, head_, level), level, MaxSkipNodes)

(* ---------------------------- version set ------------------------------ *)
NoLevels == [l \in Levels |-> <<>>]

\* VersionSet::AddFile
AddFile(levels, level, file) ==
    IF level >= 0 /\ level < kMaxLevels
    THEN [levels EXCEPT ![level] = Append(@, file)]
    ELSE levels

RECURSIVE RemoveIf(_, _)
RemoveIf(files, file_numbers) ==
    IF files = <<>> THEN <<>>
    ELSE (IF Head(files).file_number \in file_numbers THEN <<>> ELSE <<Head(files)>>)
            \o RemoveIf(Tail(files), file_numbers)

\* VersionSet::RemoveFiles
RemoveFiles(levels, level, file_numbers) ==
    IF level < 0 \/ level >= kMaxLevels THEN levels
    ELSE [levels EXCEPT ![level] = RemoveIf(@, file_numbers)]

\* VersionSet::NumFilesAtLevel0
NumFilesAtLevel0(levels) == Len(levels[0])

RECURSIVE SumSizes(_)
SumSizes(files) ==
    IF files = <<>> THEN 0 ELSE Head(files).file_size + SumSizes(Tail(files))

\* VersionSet::LevelSize
LevelSize(levels, level) ==
    IF level < 0 \/ level >= kMaxLevels THEN 0 ELSE SumSizes(levels[level])

\* kLevelSizeMultiplier ^ (level - 1), the factor of the loop at lines 91-93
RECURSIVE TargetFactor(_)
TargetFactor(level) ==
    IF level <= 1 THEN 1 ELSE kLevelSizeMultiplier * TargetFactor(level - 1)

\* a trigger that waits for more than kLevel0CompactionTrigger files
NeedsCompactionLate(levels, level) ==
    level = 0 /\ NumFilesAtLevel0(levels) > kLevel0CompactionTrigger

\* VersionSet::NeedsCompaction.  The 64-bit comparison
\* LevelSize(level) > kLevel1TargetSize * factor is made on the quotient and
\* the remainder by the factor, which is the same comparison without the
\* large product.
NeedsCompaction(levels, level) ==
    IF level = 0 THEN NumFilesAtLevel0(levels) >= kLevel0CompactionTrigger
    ELSE LET d == TargetFactor(level)
             q == LevelSize(levels, level) \div d
             r == LevelSize(levels, level) % d
         IN q > kLevel1TargetSize \/ (q = kLevel1TargetSize /\ r > 0)

\* the MANIFEST: absent, opened and truncated but not yet written, or holding
\* what WriteManifest serialised
NoManifest ==
    [exists |-> FALSE, complete |-> FALSE, next_file_number |-> 0, levels |-> NoLevels]
TruncatedManifest ==
    [exists |-> TRUE, complete |-> FALSE, next_file_number |-> 0, levels |-> NoLevels]
\* VersionSet::WriteManifest, the bytes written under the version set's mutex
ManifestImage(s) ==
    [exists |-> TRUE, complete |-> TRUE,
     next_file_number |-> s.next_file_number_, levels |-> s.levels_]

\* VersionSet::WriteManifest, the three moments of it: the ofstream is opened
\* with trunc, the state is serialised into the stream's buffer, and the
\* buffer reaches the file when the stream is closed
ManifestOpenTrunc(s) == [s EXCEPT !.manifest = TruncatedManifest]
ManifestClose(s, image) == [s EXCEPT !.manifest = image]
WriteManifest(s) == ManifestClose(ManifestOpenTrunc(s), ManifestImage(s))

\* "<db_path>/<n>.sst": files are named by their number
FileName(file_number) == file_number

MakeMeta(file_number, file, smallest, largest, level) ==
    [file_number |-> file_number, filename |-> FileName(file_number),
     file_size |-> file.file_size, smallest_key |-> smallest,
     largest_key |-> largest, num_entries |-> file.entry_count, level |-> level]

(* -------------------------- MANIFEST file format ----------------------- *)
\* VersionSet::VersionSet
NewVersionSet == [next_file_number_ |-> 1, levels_ |-> NoLevels]

\* std::to_string of a file number, as bytes
RECURSIVE to_string(_)
to_string(n) == IF n < 10 THEN <<48 + n>> ELSE to_string(n \div 10) \o <<48 + (n % 10)>>

\* db_path_ + "/" + std::to_string(file_number) + ".sst", for the db_path "d"
FileNameBytes(file_number) == <<100, 47>> \o to_string(file_number) \o <<46, 115, 115, 116>>

\* a writer that stores the largest key where the smallest is read, and the
\* smallest where the largest is read
ManifestFileSwapped(f) ==
    EncodeFixed(f.file_number, 8) \o EncodeFixed(f.file_size, 8)
        \o EncodeFixed(Len(f.filename), 4) \o f.filename
        \o EncodeFixed(Len(f.largest_key), 4) \o f.largest_key
        \o EncodeFixed(Len(f.smallest_key), 4) \o f.smallest_key
        \o EncodeFixed(f.num_entries, 8)

\* VersionSet::WriteManifest, the metadata of one file (the integers are
\* written as they lie in memory, least significant byte first)
ManifestFile(f) ==
    EncodeFixed(f.file_number, 8) \o EncodeFixed(f.file_size, 8)
        \o EncodeFixed(Len(f.filename), 4) \o f.filename
        \o EncodeFixed(Len(f.smallest_key), 4) \o f.smallest_key
        \o EncodeFixed(Len(f.largest_key), 4) \o f.largest_key
        \o EncodeFixed(f.num_entries, 8)

\* VersionSet::WriteManifest, the loop over the files of a level from file i on
RECURSIVE ManifestLevel(_, _)
ManifestLevel(level, i) ==
    IF i > Len(level) THEN <<>> ELSE ManifestFile(level[i]) \o ManifestLevel(level, i + 1)

\* VersionSet::WriteManifest, the loop over the levels from level l on
RECURSIVE ManifestLevels(_, _)
ManifestLevels(levels, l) ==
    IF l \notin DOMAIN levels THEN <<>>
    ELSE EncodeFixed(Len(levels[l]), 4) \o ManifestLevel(levels[l], 1)
            \o ManifestLevels(levels, l + 1)

\* VersionSet::WriteManifest: the bytes of the file
ManifestBytes(versions) ==
    EncodeFixed(versions.next_file_number_, 8)
        \o EncodeFixed(Cardinality(DOMAIN versions.levels_), 4)
        \o ManifestLevels(versions.levels_, 0)

\* VersionSet::LoadManifest, the metadata of one file of level l read at
\* offset pos, and the offset behind it
ReadManifestFile(bytes, pos, l) ==
    LET field(p, n) == SubSeq(bytes, p + 1, p + n)
        fn_len == Decode32(field(pos + 16, 4))
        p1 == pos + 20 + fn_len
        sk_len == Decode32(field(p1, 4))
        p2 == p1 + 4 + sk_len
        lk_len == Decode32(field(p2, 4))
        p3 == p2 + 4 + lk_len
    IN [f |-> [file_number |-> Decode64(field(pos, 8)),
               file_size |-> Decode64(field(pos + 8, 8)),
               filename |-> field(pos + 20, fn_len),
               smallest_key |-> field(p1 + 4, sk_len),
               largest_key |-> field(p2 + 4, lk_len),
               num_entries |-> Decode64(field(p3, 8)),
               level |-> l],
        pos |-> p3 + 8]

\* VersionSet::LoadManifest, the loop over the n files of level l that are
\* still to be read: each is pushed to the back of `files`
RECURSIVE ReadManifestLevel(_, _, _, _, _)
ReadManifestLevel(bytes, pos, l, n, files) ==
    IF n = 0 THEN [files |-> files, pos |-> pos]
    ELSE LET r == ReadManifestFile(bytes, pos, l)
         IN ReadManifestLevel(bytes, r.pos, l, n - 1, Append(files, r.f))

\* VersionSet::LoadManifest, the loop over the levels from level l on
RECURSIVE ReadManifestLevels(_, _, _, _)
ReadManifestLevels(bytes, pos, l, levels) ==
    IF l \notin DOMAIN levels THEN [levels |-> levels, pos |-> pos]
    ELSE LET num_files == Decode32(SubSeq(bytes, pos + 1, pos + 4))
             r == ReadManifestLevel(bytes, pos + 4, l, num_files, levels[l])
         IN ReadManifestLevels(bytes, r.pos, l + 1, [levels EXCEPT ![l] = r.files])

\* VersionSet::LoadManifest on a file that WriteManifest wrote in full: the
\* status and the version set
LoadManifestBytes(versions, file) ==
    IF ~file.exists THEN [called |-> TRUE, status |-> "NotFound", versions |-> versions]
    ELSE LET num_levels == Decode32(SubSeq(file.bytes, 9, 12))
             resized == [l \in 0..(num_levels - 1) |->
                            IF l \in DOMAIN versions.levels_ THEN versions.levels_[l]
                            ELSE <<>>]
             r == ReadManifestLevels(file.bytes, 12, 0, resized)
         IN [called |-> TRUE,
             status |-> IF r.pos <= Len(file.bytes) THEN "Ok" ELSE "IOError",
             versions |-> [next_file_number_ |-> Decode64(SubSeq(file.bytes, 1, 8)),
                           levels_ |-> r.levels]]

(* ------------------------------ WAL ------------------------------------ *)
\* WALManager::GenerateFilename: "<db_path>/<seq>.wal", named by the number
WalName(seq) == seq

\* WALWriter::Append (with the flush to the OS it ends with): the record is
\* appended to the file the writer holds open; when that file has been
\* unlinked meanwhile, the bytes go to a file no directory entry names
WalAppend(s, rec) ==
    IF s.wal_ \in DOMAIN s.walFiles
    THEN [s EXCEPT !.walFiles[s.wal_] = Append(@, rec)]
    ELSE s

\* WALManager::CreateWriter: opens (std::ios::app) or creates the segment
CreateWriter(s, seq) ==
    [s EXCEPT !.wal_ = WalName(seq),
              !.walFiles = IF WalName(seq) \in DOMAIN @ THEN @
                           ELSE FnPut(@, WalName(seq), <<>>)]

\* WALManager::CleanupOldWALs
CleanupOldWALs(s, min_sequence) ==
    [s EXCEPT !.walFiles = FnDel(@, {n \in DOMAIN @ : n < min_sequence})]

\* WALManager::GetWALFiles: the segment names in ascending numeric order
RECURSIVE SortedNames(_)
SortedNames(names) ==
    IF names = {} THEN <<>>
    ELSE LET m == CHOOSE n \in names : \A o \in names : n <= o
         IN <<m>> \o SortedNames(names \ {m})

(* ---------------------------- Database --------------------------------- *)
MakeRecord(type, key, value, seq) ==
    [type |-> type, key |-> key, value |-> value, sequence |-> seq]

\* sequence_.fetch_add(1) + 1 leaves the new value in sequence_
FetchAddSequence(s) == [s EXCEPT !.sequence_ = @ + 1]

\* memtable_->Add(...)
MemAdd(s, rec) ==
    [s EXCEPT !.heap[s.memtable_] =
        MemTableAdd(@, rec.key, rec.value, rec.sequence, rec.type)]

\* Database::RotateMemTable, line 221: immutable_memtable_ = std::move(memtable_)
\* destroys the object immutable_memtable_ owned and leaves memtable_ null
RotateMove(s) ==
    [s EXCEPT !.heap = FnDel(@, {s.immutable_memtable_}),
              !.immutable_memtable_ = s.memtable_,
              !.memtable_ = NullPtr]

\* line 222: memtable_ = std::make_unique<MemTable>()
RotateNew(s) ==
    [s EXCEPT !.heap = FnPut(@, s.nextObj, NewMemTable),
              !.memtable_ = s.nextObj,
              !.nextObj = @ + 1]

\* lines 225-230: wal_->Close(); wal_ = CreateWriter(sequence_.load())
RotateWal(s) == CreateWriter(s, s.sequence_)

\* FlushImmutableMemTable, lines 250-265: what the memtable iterator hands to
\* the builder (user key and value; sequence and type are not written)
FlushEntries(mt) ==
    [i \in 1..Len(mt.entries) |->
        [key |-> mt.entries[i].key, value |-> mt.entries[i].value]]

\* lines 244-267: NextFileNumber, the builder's Add calls and Finish
FlushBuild(s) ==
    [s EXCEPT !.next_file_number_ = @ + 1,
              !.sstFiles = FnPut(@, FileName(s.next_file_number_),
                    BuildSSTable(FlushEntries(s.heap[s.immutable_memtable_]),
                                 kSSTableBlockSize))]

\* lines 270-277: the FileMetaData of the file FlushBuild wrote as number n
FlushMeta(s, n) ==
    LET es == FlushEntries(s.heap[s.immutable_memtable_])
    IN MakeMeta(n, s.sstFiles[FileName(n)],
                IF es = <<>> THEN EmptyKey ELSE es[1].key,
                IF es = <<>> THEN EmptyKey ELSE es[Len(es)].key, 0)

\* line 279
FlushAddFile(s, meta) == [s EXCEPT !.levels_ = AddFile(@, 0, meta)]

\* a flush that does not drop the immutable memtable
FlushResetSkipped(s) == s

\* line 283: immutable_memtable_.reset()
FlushReset(s) ==
    [s EXCEPT !.heap = FnDel(@, {s.immutable_memtable_}),
              !.immutable_memtable_ = NullPtr]

\* Compactor::MaybeScheduleCompaction
MaybeScheduleCompaction(s) == [s EXCEPT !.pending_compaction_ = TRUE]

\* lines 286-289
FlushCleanup(s) == MaybeScheduleCompaction(CleanupOldWALs(s, s.sequence_))

\* Database::FlushImmutableMemTable
FlushImmutableMemTable(s) ==
    IF s.immutable_memtable_ = NullPtr THEN s
    ELSE LET n == s.next_file_number_
             s1 == FlushBuild(s)
             s2 == FlushAddFile(s1, FlushMeta(s1, n))
         IN FlushCleanup(FlushReset(WriteManifest(s2)))

\* Database::RotateMemTable
RotateMemTable(s) ==
    FlushImmutableMemTable(RotateWal(RotateNew(RotateMove(FlushImmutableMemTable(s)))))

\* Database::WriteInternal, lines 183-207 (the write mutex is held)
WriteInternal(s, key, value, type) ==
    LET s1 == FetchAddSequence(s)
        rec == MakeRecord(type, key, value, s1.sequence_)
        s2 == MemAdd(WalAppend(s1, rec), rec)
    IN IF ShouldFlush(s2.heap[s2.memtable_]) THEN RotateMemTable(s2) ELSE s2

\* Database::Write, lines 388-396: the loop over the operations of the batch
RECURSIVE WriteBatchLoop(_, _)
WriteBatchLoop(s, ops) ==
    IF ops = <<>> THEN s
    ELSE LET s1 == FetchAddSequence(s)
             rec == MakeRecord(Head(ops).type, Head(ops).key, Head(ops).value,
                               s1.sequence_)
         IN WriteBatchLoop(MemAdd(WalAppend(s1, rec), rec), Tail(ops))

\* Database::Write
WriteBatch(s, ops) ==
    LET s1 == WriteBatchLoop(s, ops)
    IN IF ShouldFlush(s1.heap[s1.memtable_]) THEN RotateMemTable(s1) ELSE s1

\* Database::GetFromLevels, the loop over the files of one level
RECURSIVE SearchFiles(_, _, _)
SearchFiles(files, disk, key) ==
    IF files = <<>> THEN NotFound
    ELSE LET f == Head(files)
             skip == \/ key < f.smallest_key
                     \/ key > f.largest_key
                     \/ f.filename \notin DOMAIN disk
                     \/ ~MayContain(disk[f.filename], key)
             r == IF skip THEN NotFound ELSE SSTableGet(disk[f.filename], key)
         IN IF r.ok THEN r ELSE SearchFiles(Tail(files), disk, key)

RECURSIVE SearchLevels(_, _, _, _)
SearchLevels(levels, disk, key, level) ==
    IF level >= kMaxLevels THEN NotFound
    ELSE LET r == SearchFiles(levels[level], disk, key)
         IN IF r.ok THEN r ELSE SearchLevels(levels, disk, key, level + 1)

\* Database::GetFromLevels
GetFromLevels(s, key) == SearchLevels(s.levels_, s.sstFiles, key, 0)

\* Database::Get; opt_snapshot is ReadOptions::snapshot (0: not set)
Get(s, key, opt_snapshot) ==
    LET snap == IF opt_snapshot # 0 THEN opt_snapshot ELSE s.sequence_
        r1 == MemTableGet(s.heap[s.memtable_], key, snap)
        r2 == IF s.immutable_memtable_ # NullPtr
              THEN MemTableGet(s.heap[s.immutable_memtable_], key, snap)
              ELSE NotFound
    IN IF r1.ok THEN r1
       ELSE IF r2.ok THEN r2
       ELSE GetFromLevels(s, key)

\* DatabaseIteratorImpl right after its constructor (Database::NewIterator)
NewIterator ==
    [valid_ |-> FALSE, current_key_ |-> EmptyKey, current_value_ |-> EmptyValue]

\* DatabaseIteratorImpl::SeekToFirst
IterSeekToFirst(it) == [it EXCEPT !.valid_ = FALSE]

\* DatabaseIteratorImpl::Next
IterNext(it) == [it EXCEPT !.valid_ = FALSE]

\* the loop of a caller: for (it->SeekToFirst(); it->Valid(); it->Next()),
\* which collects it->key() and it->value()
RECURSIVE IterLoop(_, _)
IterLoop(it, out) ==
    IF ~it.valid_ THEN out
    ELSE IterLoop(IterNext(it),
                  Append(out, [key |-> it.current_key_, value |-> it.current_value_]))

\* what a scan of the database with a new iterator yields
IterScan(s) == IterLoop(IterSeekToFirst(NewIterator), <<>>)

(* ----------------------------- compactor ------------------------------- *)
NoJob == [level |-> -1, inputs |-> <<>>]

\* Compactor::PickCompaction
RECURSIVE PickFrom(_, _)
PickFrom(levels, level) ==
    IF level >= kMaxLevels - 1 THEN NoJob
    ELSE IF NeedsCompaction(levels, level) /\ levels[level] # <<>>
         THEN [level |-> level, inputs |-> levels[level]]
         ELSE PickFrom(levels, level + 1)

PickCompaction(s) == PickFrom(s.levels_, 0)

InputNumbers(job) == {job.inputs[i].file_number : i \in 1..Len(job.inputs)}

\* DoCompaction, lines 350-358: every input file can be opened
InputsOpen(s, job) ==
    \A i \in 1..Len(job.inputs) : job.inputs[i].filename \in DOMAIN s.sstFiles

\* DoCompaction, lines 361-369: NextFileNumber and SSTableMerger::Merge of the
\* inputs, in the order of the job, into <output_number>.sst
CompactMerge(s, job) ==
    [s EXCEPT !.next_file_number_ = @ + 1,
              !.sstFiles = FnPut(@, FileName(s.next_file_number_),
                    Merge([i \in 1..Len(job.inputs) |-> s.sstFiles[job.inputs[i].filename]]))]

\* lines 372-384: the output's metadata, read back from the file
CompactMeta(s, job, n) ==
    LET file == s.sstFiles[FileName(n)]
    IN MakeMeta(n, file, SmallestKey(file), LargestKey(file), job.level + 1)

\* line 392
CompactRemove(s, job) ==
    [s EXCEPT !.levels_ = RemoveFiles(@, job.level, InputNumbers(job))]

\* line 393
CompactAdd(s, job, meta) == [s EXCEPT !.levels_ = AddFile(@, job.level + 1, meta)]

\* lines 397-400: std::filesystem::remove of every input
CompactDelete(s, job) ==
    [s EXCEPT !.sstFiles = FnDel(@, {job.inputs[i].filename : i \in 1..Len(job.inputs)})]

\* Compactor::DoCompaction
DoCompaction(s, job) ==
    IF job.inputs = <<>> \/ ~InputsOpen(s, job) THEN s
    ELSE LET n == s.next_file_number_
             s1 == CompactMerge(s, job)
             s2 == CompactAdd(CompactRemove(s1, job), job, CompactMeta(s1, job, n))
         IN CompactDelete(WriteManifest(s2), job)

\* DoCompaction, lines 361-369: SSTableMerger::Merge returns an error after
\* NextFileNumber; the builder's Abandon removes the output
MergeFails(s, job) == [s EXCEPT !.next_file_number_ = @ + 1]

\* a compaction that drops its inputs from the lists although its output did not open
OutputOpenIgnored(s, job) == CompactRemove(CompactMerge(s, job), job)

\* DoCompaction, lines 372-375: SSTableReader::Open of the merged output
\* returns an error; the output stays in the directory
OutputOpenFails(s, job) == CompactMerge(s, job)

\* Compactor::CompactLevel: the level asked for is not used
CompactLevel(s, level) ==
    LET job == PickCompaction(s)
    IN IF job = NoJob THEN s ELSE DoCompaction(s, job)

\* Compactor::BackgroundThread, one turn of the loop after waking up
BackgroundTurn(s) ==
    LET s1 == [s EXCEPT !.pending_compaction_ = FALSE]
        job == PickCompaction(s1)
    IN IF (\E l \in 0..(kMaxLevels - 2) : NeedsCompaction(s1.levels_, l)) /\ job # NoJob
       THEN DoCompaction(s1, job)
       ELSE s1

(* ------------------------- open, close, crash -------------------------- *)
\* Database::Recover, the callback over the records of one segment
RECURSIVE ReplayRecords(_, _)
ReplayRecords(s, recs) ==
    IF recs = <<>> THEN s
    ELSE LET r == Head(recs)
             s1 == MemAdd(s, r)
             s2 == IF r.sequence > s1.sequence_
                   THEN [s1 EXCEPT !.sequence_ = r.sequence] ELSE s1
         IN ReplayRecords(s2, Tail(recs))

RECURSIVE ReplayFiles(_, _)
ReplayFiles(s, names) ==
    IF names = <<>> THEN s
    ELSE ReplayFiles(ReplayRecords(s, s.walFiles[Head(names)]), Tail(names))

\* Database::Recover
Recover(s) == ReplayFiles(s, SortedNames(DOMAIN s.walFiles))

\* VersionSet::LoadManifest
LoadManifest(s) ==
    [s EXCEPT !.next_file_number_ = s.manifest.next_file_number,
              !.levels_ = s.manifest.levels]

\* a Database object right after its constructor, before Initialize, over the
\* directory of s
Constructed(s) ==
    [s EXCEPT !.sequence_ = 0, !.memtable_ = NullPtr, !.immutable_memtable_ = NullPtr,
              !.heap = EmptyFn, !.nextObj = 1, !.wal_ = 0,
              !.levels_ = NoLevels, !.next_file_number_ = 1,
              !.running_ = FALSE, !.pending_compaction_ = FALSE]

\* Database::Initialize, lines 108-128: is_new, and the state loaded when the
\* directory holds a MANIFEST
InitializeLoad(s) ==
    LET s1 == RotateNew(Constructed(s))
    IN IF s.manifest.exists THEN Recover(LoadManifest(s1)) ELSE s1

\* Database::Initialize, lines 130-139: a new WAL writer, the compactor starts
InitializeStart(s) == [CreateWriter(s, s.sequence_) EXCEPT !.running_ = TRUE]

\* Database::Initialize
Initialize(s) == InitializeStart(InitializeLoad(s))

\* LoadManifest returns IOError for a MANIFEST that ends early
OpenFails(s) == s.manifest.exists /\ ~s.manifest.complete

\* Database::~Database: the compactor is stopped, a non-empty memtable is
\* flushed
Destroy(s) ==
    LET s1 == [s EXCEPT !.running_ = FALSE]
    IN IF s1.heap[s1.memtable_].count > 0 THEN RotateMemTable(s1) ELSE s1

EmptyDirectory ==
    [sequence_ |-> 0, memtable_ |-> NullPtr, immutable_memtable_ |-> NullPtr,
     heap |-> EmptyFn, nextObj |-> 1, wal_ |-> 0, levels_ |-> NoLevels,
     next_file_number_ |-> 1, running_ |-> FALSE, pending_compaction_ |-> FALSE,
     sstFiles |-> EmptyFn, manifest |-> NoManifest, walFiles |-> EmptyFn]

(* ------------------------------ actions -------------------------------- *)
PutOps == [type : {kPut}, key : Keys, value : Values]
DeleteOps == [type : {kDelete}, key : Keys, value : {EmptyValue}]
Ops == PutOps \cup DeleteOps
Batches == UNION {[1..n -> Ops] : n \in 1..MaxBatch}

\* the entry of `history` for the mutation that got sequence number seq
Acked(op, seq, sync) ==
    [type |-> op.type, key |-> op.key, value |-> op.value, sequence |-> seq, sync |-> sync]

\* Database::Put
Put(key, value, sync) ==
    /\ dbOpen
    /\ Len(history) < MaxOps
    /\ SetState(WriteInternal(State, key, value, kPut))
    /\ history' = Append(history,
            Acked([type |-> kPut, key |-> key, value |-> value], sequence_ + 1, sync))
    /\ UNCHANGED <<dbOpen, snapshot, crashedAt, reopens>>
    /\ UNCHANGED threadVars

\* Database::Delete
Delete(key, sync) ==
    /\ dbOpen
    /\ Len(history) < MaxOps
    /\ SetState(WriteInternal(State, key, EmptyValue, kDelete))
    /\ history' = Append(history,
            Acked([type |-> kDelete, key |-> key, value |-> EmptyValue], sequence_ + 1, sync))
    /\ UNCHANGED <<dbOpen, snapshot, crashedAt, reopens>>
    /\ UNCHANGED threadVars

\* Database::Write
Write(batch, sync) ==
    /\ dbOpen
    /\ Len(history) + Len(batch) <= MaxOps
    /\ SetState(WriteBatch(State, batch))
    /\ history' = history \o [i \in 1..Len(batch) |-> Acked(batch[i], sequence_ + i, sync)]
    /\ UNCHANGED <<dbOpen, snapshot, crashedAt, reopens>>
    /\ UNCHANGED threadVars

\* Database::Flush
Flush ==
    /\ dbOpen
    /\ next_file_number_ <= MaxFileNumber
    /\ SetState(RotateMemTable(State))
    /\ UNCHANGED <<dbOpen, ghostVars>>
    /\ UNCHANGED threadVars

\* Database::CompactLevel
CompactLevelCall(level) ==
    /\ dbOpen
    /\ next_file_number_ <= MaxFileNumber
    /\ SetState(CompactLevel(State, level))
    /\ UNCHANGED <<dbOpen, ghostVars>>
    /\ UNCHANGED threadVars

\* Compactor::BackgroundThread: the thread wakes up (it was notified, or one
\* second has passed) and runs one turn of its loop
BackgroundCompaction ==
    /\ dbOpen
    /\ running_
    /\ next_file_number_ <= MaxFileNumber
    /\ SetState(BackgroundTurn(State))
    /\ UNCHANGED <<dbOpen, ghostVars>>
    /\ UNCHANGED threadVars

\* Database::GetSnapshot
GetSnapshot ==
    /\ dbOpen
    /\ snapshot' = sequence_
    /\ UNCHANGED <<dbVars, diskVars, history, crashedAt, reopens>>
    /\ UNCHANGED threadVars

\* the Database object is destroyed (a clean close)
Close ==
    /\ dbOpen
    /\ next_file_number_ <= MaxFileNumber
    /\ SetState(Constructed(Destroy(State)))
    /\ dbOpen' = FALSE
    /\ snapshot' = -1
    /\ UNCHANGED <<history, crashedAt, reopens>>
    /\ UNCHANGED threadVars

\* the process is killed: the objects are gone, the directory stays
Crash ==
    /\ dbOpen
    /\ SetState(Constructed(State))
    /\ dbOpen' = FALSE
    /\ snapshot' = -1
    /\ crashedAt' = Len(history)
    /\ UNCHANGED <<history, reopens>>
    /\ UNCHANGED threadVars

\* Database::Open on the directory as it is
Open ==
    /\ ~dbOpen
    /\ reopens < MaxReopens
    /\ reopens' = reopens + 1
    /\ IF OpenFails(State)
       THEN UNCHANGED <<dbVars, diskVars>>
       ELSE SetState(Initialize(State)) /\ dbOpen' = TRUE
    /\ UNCHANGED <<history, snapshot, crashedAt>>
    /\ UNCHANGED threadVars

vars == <<engineVars, storageVars>>

\* the threads: two that write and flush, one that reads, and the
\* compactor's background thread
Writers == {"w1", "w2"}
Reader == "r"
Background == "b"
Threads == Writers \cup {Reader, Background}
NoThread == "none"

\* the local variables of a call, before the call assigns them
NoLocal ==
    [ops |-> <<>>, acked |-> <<>>, sync |-> FALSE, seq |-> 0,
     key |-> EmptyKey, snap |-> 0, level |-> 0, files |-> <<>>,
     result |-> NotFound, undefined |-> FALSE, seen |-> FALSE,
     job |-> NoJob, n |-> 0, image |-> NoManifest, retry |-> FALSE,
     before |-> [k \in Keys |-> NotFound]]

\* no thread is inside a call
ThreadsIdle ==
    /\ write_mutex_ = NoThread
    /\ mutex_ = {}
    /\ pc = [t \in Threads |-> "idle"]
    /\ local = [t \in Threads |-> NoLocal]
    /\ log = [wal |-> <<>>, mem |-> <<>>, by |-> <<>>]

\* Database::Open on an empty directory
EngineInit ==
    /\ dbOpen = TRUE
    /\ IsState(Initialize(EmptyDirectory))
    /\ history = <<>>
    /\ snapshot = -1
    /\ crashedAt = -1
    /\ reopens = 0
    /\ ThreadsIdle

\* an LRUKReplacer as the buffer pool makes it (K = 2), no call made yet
ReplacerInit ==
    /\ replacer = NewReplacer(NumFrames, 2)
    /\ evicted = NoEvict

\* the callers of the buffer pool hold no pin
NoCallers ==
    [held |-> [p \in 0..MaxPageId |-> 0],
     handed |-> [p \in 0..MaxPageId |-> INVALID_FRAME_ID],
     owed |-> [p \in 0..MaxPageId |-> {}],
     loaded |-> [f \in 0..(PoolSize - 1) |-> INVALID_PAGE_ID]]

\* a BufferPoolManager over a new, empty file (BufferPoolConfig: replacer_k 2)
PoolInit ==
    /\ bpm = NewBufferPool(PoolSize, 2)
    /\ bpmAlive = TRUE
    /\ callers = NoCallers

\* an empty WAL file, nothing appended and nothing read yet
WalInit ==
    /\ walBytes = <<>>
    /\ walReader = NewReader
    /\ walCalls = [appended |-> <<>>, ends |-> <<>>, altered |-> 0]

\* no filter and no table yet
BloomInit ==
    /\ bloom = [keys |-> <<>>, filter |-> NoFilter, data |-> <<>>, copy |-> NoFilter,
                deserialized |-> FALSE]
    /\ table = [keys_for_bloom_ |-> <<>>, file |-> <<>>, opened |-> FALSE,
                reader |-> [status |-> "Ok", bloom_filter_ |-> NoFilter]]

\* a directory without MANIFEST and a version set that was not loaded
NoManifestFile == [exists |-> FALSE, bytes |-> <<>>]
NotLoaded == [called |-> FALSE, status |-> "Ok", versions |-> NewVersionSet]

\* two version sets right after their constructors
ManifestInit ==
    /\ vsWritten = NewVersionSet
    /\ vsFile = NoManifestFile
    /\ vsLoaded = NotLoaded

\* a MemTable right after its constructor; Get was not called
NoGet == [called |-> FALSE, on |-> <<>>, key |-> EmptyKey, sequence |-> 0,
          result |-> NotFound]
MemInit == memTable = [table |-> NewMemTable, added |-> <<>>, got |-> NoGet]

\* no builder, no SSTable file and no call of a reader yet
NoCall == [op |-> "none", file |-> 0, key |-> <<>>, entries |-> <<>>, num_entries |-> 0,
           result |-> [ok |-> FALSE, value |-> <<>>], status |-> "Ok"]
TableInit ==
    sst = [open |-> FALSE, builder |-> NewBuilder(kSSTableBlockSize), added |-> <<>>,
           adds |-> 0, files |-> <<>>, last |-> NoCall]

\* Database::Recover was not called
NotRecovered == [called |-> FALSE, file |-> <<>>, added |-> <<>>, sequence_ |-> 0,
                 warned |-> "Ok", status |-> "Ok"]
RecoveredInit == recovered = [result |-> NotRecovered, appended |-> 0, altered |-> 0]

\* Compactor::mutex_ is free, no thread waits on cv_; Stop and
\* WaitForCompaction were not called
SyncInit ==
    compactorSync = [mutex_ |-> NoThread, cv_ |-> {}, notified |-> {}, stop |-> "none",
                     wait |-> "none", scheduled |-> FALSE, rescheduled |-> FALSE,
                     blocks |-> 0, picks |-> 0]

\* a SkipList right after its constructor; no Insert, Contains or iterator yet
SkipIdle == [pc |-> "idle", key |-> 0, prev |-> [l \in SkipLevels |-> Garbage],
             height |-> 0, x |-> 0, i |-> 0]
ReadIdle == [pc |-> "idle", op |-> "none", key |-> 0, x |-> 0, level |-> 0,
             seen |-> <<>>, must |-> {}, result |-> FALSE]
SkipInit ==
    skiplist = [list |-> NewSkipList, writer |-> SkipIdle, reader |-> ReadIdle, done |-> {}]

SoloInit == SkipInit /\ SyncInit /\ PageInit

UnitInit == MemInit /\ TableInit /\ RecoveredInit /\ SoloInit

StorageInit ==
    ReplacerInit /\ PoolInit /\ WalInit /\ BloomInit /\ ManifestInit /\ UnitInit

Init == EngineInit /\ StorageInit

Next ==
    \/ \E k \in Keys, v \in Values : Put(k, v, FALSE) /\ UNCHANGED storageVars
    \/ \E k \in Keys : Delete(k, FALSE) /\ UNCHANGED storageVars
    \/ \E b \in Batches : Write(b, FALSE) /\ UNCHANGED storageVars
    \/ Flush /\ UNCHANGED storageVars
    \/ \E level \in {-1, 0, 1} : CompactLevelCall(level) /\ UNCHANGED storageVars
    \/ BackgroundCompaction /\ UNCHANGED storageVars
    \/ GetSnapshot /\ UNCHANGED storageVars

Spec == Init /\ [][Next]_vars

NextCrash ==
    \/ \E k \in Keys, v \in Values, sync \in BOOLEAN : Put(k, v, sync) /\ UNCHANGED storageVars
    \/ \E k \in Keys, sync \in BOOLEAN : Delete(k, sync) /\ UNCHANGED storageVars
    \/ \E b \in Batches, sync \in BOOLEAN : Write(b, sync) /\ UNCHANGED storageVars
    \/ next_file_number_ <= MaxCrashFileNumber /\ Flush /\ UNCHANGED storageVars
    \/ next_file_number_ <= MaxCrashFileNumber /\ \E level \in {-1, 0} : CompactLevelCall(level) /\ UNCHANGED storageVars
    \/ next_file_number_ <= MaxCrashFileNumber /\ BackgroundCompaction /\ UNCHANGED storageVars
    \/ next_file_number_ <= MaxCrashFileNumber /\ Close /\ UNCHANGED storageVars
    \/ Crash /\ UNCHANGED storageVars
    \/ Open /\ UNCHANGED storageVars

SpecCrash == Init /\ [][NextCrash]_vars

(* ------------------- the calls, statement by statement ----------------- *)
Goto(t, label) == pc' = [pc EXCEPT ![t] = label]

\* a write path that does not wait for the write mutex
WriteMutexIgnored == TRUE

\* std::lock_guard<std::mutex> write_lock(write_mutex_) can be taken
WriteMutexFree == write_mutex_ = NoThread

\* the mutations the two writer threads have begun and not yet returned from
InFlight ==
    Len(local["w1"].ops) + Len(local["w1"].acked)
        + Len(local["w2"].ops) + Len(local["w2"].acked)

\* Database::WriteInternal line 181, Database::Write line 386: the call takes
\* the write mutex; ops are the operations it is going to apply
BeginWrite(t, ops, sync) ==
    /\ dbOpen
    /\ pc[t] = "idle"
    /\ WriteMutexFree
    /\ Len(history) + InFlight + Len(ops) <= MaxOps
    /\ write_mutex_' = t
    /\ local' = [local EXCEPT ![t] = [NoLocal EXCEPT
                    !.ops = ops, !.sync = sync,
                    !.before = IF memtable_ = NullPtr THEN NoLocal.before
                               ELSE [k \in Keys |-> Get(State, k, 0)]]]
    /\ Goto(t, "w_seq")
    /\ UNCHANGED <<dbVars, diskVars, ghostVars, mutex_, log>>

\* Database::Put, Database::Delete, Database::Write, up to the lock
PutBegin(t, key, value, sync) ==
    BeginWrite(t, <<[type |-> kPut, key |-> key, value |-> value]>>, sync)
DeleteBegin(t, key, sync) ==
    BeginWrite(t, <<[type |-> kDelete, key |-> key, value |-> EmptyValue]>>, sync)
WriteBegin(t, batch, sync) == BeginWrite(t, batch, sync)

\* line 183 (line 389 in Write): seq = sequence_.fetch_add(1) + 1
WriteSequence(t) ==
    /\ pc[t] = "w_seq"
    /\ SetState(FetchAddSequence(State))
    /\ local' = [local EXCEPT ![t].seq = sequence_ + 1]
    /\ Goto(t, "w_wal")
    /\ UNCHANGED <<dbOpen, ghostVars, write_mutex_, mutex_, log>>

\* the record of the operation the call is at
CurrentRecord(t) ==
    MakeRecord(Head(local[t].ops).type, Head(local[t].ops).key,
               Head(local[t].ops).value, local[t].seq)

\* lines 186-192 (line 392): wal_->Append, and Sync when asked for
WriteAppend(t) ==
    /\ pc[t] = "w_wal"
    /\ SetState(WalAppend(State, CurrentRecord(t)))
    /\ log' = [log EXCEPT !.wal = Append(@, local[t].seq)]
    /\ Goto(t, "w_add")
    /\ UNCHANGED <<dbOpen, ghostVars, write_mutex_, mutex_, local>>

\* line 195 (line 395): memtable_->Add; through a null memtable_ the
\* behaviour is undefined, and the call is not followed further
WriteAdd(t) ==
    /\ pc[t] = "w_add"
    /\ IF memtable_ = NullPtr
       THEN /\ local' = [local EXCEPT ![t].undefined = TRUE]
            /\ Goto(t, "w_undefined")
            /\ UNCHANGED <<dbVars, diskVars, log>>
       ELSE /\ SetState(MemAdd(State, CurrentRecord(t)))
            /\ log' = [log EXCEPT !.mem = Append(@, local[t].seq), !.by = Append(@, t)]
            /\ local' = [local EXCEPT
                    ![t].ops = Tail(@),
                    ![t].acked = Append(@, Acked(Head(local[t].ops), local[t].seq,
                                                 local[t].sync))]
            /\ Goto(t, IF Len(local[t].ops) > 1 THEN "w_seq" ELSE "w_end")
    /\ UNCHANGED <<dbOpen, ghostVars, write_mutex_, mutex_>>

\* lines 205-209 (lines 402-406): RotateMemTable when the memtable is full,
\* the lock guard releases the write mutex, the call returns Ok
WriteEnd(t) ==
    /\ pc[t] = "w_end"
    /\ SetState(IF ShouldFlush(heap[memtable_]) THEN RotateMemTable(State) ELSE State)
    /\ history' = history \o local[t].acked
    /\ write_mutex_' = IF write_mutex_ = t THEN NoThread ELSE write_mutex_
    /\ local' = [local EXCEPT ![t] = NoLocal]
    /\ Goto(t, "idle")
    /\ UNCHANGED <<dbOpen, snapshot, crashedAt, reopens, mutex_, log>>

\* Database::Flush, line 414: the call takes the write mutex; RotateMemTable,
\* lines 216-218: an immutable memtable still there (a flush of it failed) is
\* flushed first, `retry` notes that the call is in that flush
FlushBegin(t) ==
    /\ dbOpen
    /\ pc[t] = "idle"
    /\ WriteMutexFree
    /\ write_mutex_' = t
    /\ local' = [local EXCEPT ![t].retry = immutable_memtable_ # NullPtr]
    /\ Goto(t, IF immutable_memtable_ # NullPtr THEN "f_build" ELSE "f_move")
    /\ UNCHANGED <<dbVars, diskVars, ghostVars, mutex_, log>>

\* one statement of a call: the state after it, and the label that follows
Step(t, from, s, to) ==
    /\ pc[t] = from
    /\ SetState(s)
    /\ Goto(t, to)
    /\ UNCHANGED <<dbOpen, ghostVars, write_mutex_, mutex_, log>>

\* RotateMemTable, line 221: immutable_memtable_ = std::move(memtable_)
FlushMove(t) ==
    /\ Step(t, "f_move", RotateMove(State), "f_new")
    /\ UNCHANGED local

\* line 222
FlushNew(t) == Step(t, "f_new", RotateNew(State), "f_wal") /\ UNCHANGED local

\* lines 225-230
FlushWal(t) == Step(t, "f_wal", RotateWal(State), "f_build") /\ UNCHANGED local

\* FlushImmutableMemTable, lines 244-267
FlushWrite(t) ==
    /\ Step(t, "f_build", FlushBuild(State), "f_add")
    /\ local' = [local EXCEPT ![t].n = next_file_number_]

\* lines 270-279
FlushAdd(t) ==
    /\ Step(t, "f_add", FlushAddFile(State, FlushMeta(State, local[t].n)), "f_manifest")
    /\ UNCHANGED local

\* VersionSet::WriteManifest, line 104: the ofstream is opened with trunc
ManifestOpen(t, from, to) ==
    Step(t, from, ManifestOpenTrunc(State), to) /\ UNCHANGED local

\* lines 110-144: under the version set's mutex the state is written into the
\* stream
ManifestWrite(t, from, to) ==
    /\ Step(t, from, State, to)
    /\ local' = [local EXCEPT ![t].image = ManifestImage(State)]

\* line 146: the lock guard is released, then the stream is destroyed and its
\* buffer reaches the file
ManifestFlush(t, from, to) ==
    Step(t, from, ManifestClose(State, local[t].image), to) /\ UNCHANGED local

FlushManifestOpen(t) == ManifestOpen(t, "f_manifest", "f_manifest_write")
FlushManifestWrite(t) == ManifestWrite(t, "f_manifest_write", "f_manifest_flush")
FlushManifestFlush(t) == ManifestFlush(t, "f_manifest_flush", "f_reset")

\* line 283: immutable_memtable_.reset()
FlushDrop(t) == Step(t, "f_reset", FlushReset(State), "f_cleanup") /\ UNCHANGED local

\* lines 286-293; after the flush RotateMemTable began with, the rotation
\* goes on at line 221, otherwise Database::Flush returns and releases the
\* write mutex
FlushEnd(t) ==
    /\ pc[t] = "f_cleanup"
    /\ SetState(FlushCleanup(State))
    /\ IF local[t].retry
       THEN /\ local' = [local EXCEPT ![t].retry = FALSE]
            /\ Goto(t, "f_move")
            /\ UNCHANGED write_mutex_
       ELSE /\ write_mutex_' = IF write_mutex_ = t THEN NoThread ELSE write_mutex_
            /\ local' = [local EXCEPT ![t] = NoLocal]
            /\ Goto(t, "idle")
    /\ UNCHANGED <<dbOpen, ghostVars, mutex_, log>>

\* FlushImmutableMemTable, lines 244-265, when the builder cannot open its
\* file (SSTableBuilder's constructor only logs that): the file number is
\* used up, the first Add returns IOError (Finish does for an empty memtable)
FlushBuildFails(s) == [s EXCEPT !.next_file_number_ = @ + 1]

\* the flush returns that error through RotateMemTable and Database::Flush,
\* the write mutex is released; immutable_memtable_ stays as it is
FlushOpenFails(t) ==
    /\ pc[t] = "f_build"
    /\ SetState(FlushBuildFails(State))
    /\ write_mutex_' = IF write_mutex_ = t THEN NoThread ELSE write_mutex_
    /\ local' = [local EXCEPT ![t] = NoLocal]
    /\ Goto(t, "idle")
    /\ UNCHANGED <<dbOpen, ghostVars, mutex_, log>>

\* the statements of a flush
FlushStep(t) ==
    \/ FlushMove(t)
    \/ FlushNew(t)
    \/ FlushWal(t)
    \/ FlushWrite(t)
    \/ FlushAdd(t)
    \/ FlushManifestOpen(t)
    \/ FlushManifestWrite(t)
    \/ FlushManifestFlush(t)
    \/ FlushDrop(t)
    \/ FlushEnd(t)

\* the statements of a put, a delete or a write batch
WriteStep(t) ==
    \/ WriteSequence(t)
    \/ WriteAppend(t)
    \/ WriteAdd(t)
    \/ WriteEnd(t)

\* two threads write and flush
NextWriters ==
    \/ \E t \in Writers, k \in Keys, v \in Values : PutBegin(t, k, v, FALSE) /\ UNCHANGED storageVars
    \/ \E t \in Writers, k \in Keys : DeleteBegin(t, k, FALSE) /\ UNCHANGED storageVars
    \/ \E t \in Writers, b \in Batches : WriteBegin(t, b, FALSE) /\ UNCHANGED storageVars
    \/ \E t \in Writers : next_file_number_ <= MaxWritersFileNumber /\ FlushBegin(t) /\ UNCHANGED storageVars
    \/ \E t \in Writers : WriteStep(t) /\ UNCHANGED storageVars
    \/ \E t \in Writers : FlushStep(t) /\ UNCHANGED storageVars

SpecWriters == Init /\ [][NextWriters]_vars

\* Database::Get, lines 297-300: the shared lock on mutex_ (no thread ever
\* takes mutex_ exclusively), snapshot = sequence_.load() for options.snapshot
\* = 0; `seen` notes whether an undisturbed Get would have found the key now
GetBegin(key) ==
    /\ dbOpen
    /\ pc[Reader] = "idle"
    /\ mutex_' = mutex_ \cup {Reader}
    /\ local' = [local EXCEPT ![Reader] =
            [NoLocal EXCEPT !.key = key, !.snap = sequence_,
                            !.seen = memtable_ # NullPtr /\ Get(State, key, 0).ok]]
    /\ Goto(Reader, "r_mem")
    /\ UNCHANGED <<dbVars, diskVars, ghostVars, write_mutex_, log>>

\* what a Get may return once its behaviour is undefined
Outcomes == {NotFound} \cup {Ok(v) : v \in Values \cup {EmptyValue}}

\* a step of Get that changes only the reader's locals
ReadStep(from, fields, to) ==
    /\ pc[Reader] = from
    /\ local' = [local EXCEPT ![Reader] = fields]
    /\ Goto(Reader, to)
    /\ UNCHANGED <<dbVars, diskVars, ghostVars, write_mutex_, mutex_, log>>

\* the reader dereferences a null unique_ptr: undefined behaviour, any outcome
ReadUndefined(from) ==
    \E r \in Outcomes :
        ReadStep(from, [local[Reader] EXCEPT !.undefined = TRUE, !.result = r], "r_return")

\* line 303: memtable_->Get(key, snapshot)
GetMem ==
    IF memtable_ = NullPtr THEN ReadUndefined("r_mem")
    ELSE LET r == MemTableGet(heap[memtable_], local[Reader].key, local[Reader].snap)
         IN ReadStep("r_mem", [local[Reader] EXCEPT !.result = r],
                     IF r.ok THEN "r_return" ELSE "r_imm")

\* line 310: if (immutable_memtable_)
GetImmTest ==
    ReadStep("r_imm", local[Reader],
             IF immutable_memtable_ = NullPtr THEN "r_list" ELSE "r_imm_get")

\* line 311: immutable_memtable_->Get(key, snapshot)
GetImm ==
    IF immutable_memtable_ = NullPtr THEN ReadUndefined("r_imm_get")
    ELSE LET r == MemTableGet(heap[immutable_memtable_], local[Reader].key,
                              local[Reader].snap)
         IN ReadStep("r_imm_get", [local[Reader] EXCEPT !.result = r],
                     IF r.ok THEN "r_return" ELSE "r_list")

\* GetFromLevels, lines 326-327: the loop over the levels, and the copy of
\* the level's file list that GetFilesAtLevel returns
GetList ==
    LET level == local[Reader].level
    IN IF level >= kMaxLevels
       THEN ReadStep("r_list", [local[Reader] EXCEPT !.result = NotFound], "r_return")
       ELSE IF levels_[level] = <<>>
       THEN ReadStep("r_list", [local[Reader] EXCEPT !.level = level + 1], "r_list")
       ELSE ReadStep("r_list", [local[Reader] EXCEPT !.files = levels_[level]], "r_file")

\* lines 331-353: one file of the copied list: the range check, Open (which
\* fails for a file that is gone), the bloom filter, Get
GetFile ==
    LET files == local[Reader].files
        r == SearchFiles(<<Head(files)>>, sstFiles, local[Reader].key)
    IN IF files = <<>>
       THEN ReadStep("r_file", [local[Reader] EXCEPT !.level = @ + 1], "r_list")
       ELSE IF r.ok
       THEN ReadStep("r_file", [local[Reader] EXCEPT !.result = r], "r_return")
       ELSE ReadStep("r_file", [local[Reader] EXCEPT !.files = Tail(files)], "r_file")

\* Get returns: the shared lock is released
GetReturn ==
    /\ pc[Reader] = "r_return"
    /\ mutex_' = mutex_ \ {Reader}
    /\ local' = [local EXCEPT ![Reader] = NoLocal]
    /\ Goto(Reader, "idle")
    /\ UNCHANGED <<dbVars, diskVars, ghostVars, write_mutex_, log>>

GetStep ==
    \/ GetMem
    \/ GetImmTest
    \/ GetImm
    \/ GetList
    \/ GetFile
    \/ GetReturn

\* a step of the compactor's thread: the state after it, its locals, the label
BgStep(from, s, fields, to) ==
    /\ pc[Background] = from
    /\ SetState(s)
    /\ local' = [local EXCEPT ![Background] = fields]
    /\ Goto(Background, to)
    /\ UNCHANGED <<dbOpen, ghostVars, write_mutex_, mutex_, log>>

\* Compactor::BackgroundThread, lines 272-285: the wait ends (notified, or
\* after one second), pending_compaction_ is cleared, a level is looked for
BgWake ==
    /\ dbOpen
    /\ running_
    /\ BgStep("idle", [State EXCEPT !.pending_compaction_ = FALSE], local[Background],
              IF \E l \in 0..(kMaxLevels - 2) : NeedsCompaction(levels_, l)
              THEN "b_pick" ELSE "idle")

\* line 288: PickCompaction
BgPick ==
    LET job == PickCompaction(State)
    IN BgStep("b_pick", State, [local[Background] EXCEPT !.job = job],
              IF job = NoJob THEN "idle" ELSE "b_merge")

\* DoCompaction, lines 350-369: the inputs are opened and merged into a new file
BgMerge ==
    IF InputsOpen(State, local[Background].job)
    THEN BgStep("b_merge", CompactMerge(State, local[Background].job),
                [local[Background] EXCEPT !.n = next_file_number_], "b_remove")
    ELSE BgStep("b_merge", State, NoLocal, "idle")

\* line 392
BgRemove ==
    BgStep("b_remove", CompactRemove(State, local[Background].job),
           local[Background], "b_add")

\* lines 372-384 and 393
BgAdd ==
    BgStep("b_add",
           CompactAdd(State, local[Background].job,
                      CompactMeta(State, local[Background].job, local[Background].n)),
           local[Background], "b_manifest")

\* line 394
BgManifestOpen == ManifestOpen(Background, "b_manifest", "b_manifest_write")
BgManifestWrite == ManifestWrite(Background, "b_manifest_write", "b_manifest_flush")
BgManifestFlush ==
    BgStep("b_manifest_flush", ManifestClose(State, local[Background].image),
           [local[Background] EXCEPT !.files = local[Background].job.inputs], "b_delete")

\* lines 397-400: the loop that removes the input files, one file a step
BgDelete ==
    LET files == local[Background].files
    IN IF files = <<>>
       THEN BgStep("b_delete", State, NoLocal, "idle")
       ELSE BgStep("b_delete",
                   CompactDelete(State, [level |-> local[Background].job.level,
                                         inputs |-> <<Head(files)>>]),
                   [local[Background] EXCEPT !.files = Tail(files)], "b_delete")

BgCompactionStep ==
    \/ BgPick
    \/ BgMerge
    \/ BgRemove
    \/ BgAdd
    \/ BgManifestOpen
    \/ BgManifestWrite
    \/ BgManifestFlush
    \/ BgDelete

\* a database that took four puts, each followed by a Flush, and then
\* possibly one more put: level 0 holds four files
RECURSIVE Loaded(_, _)
Loaded(s, ops) ==
    IF ops = <<>> THEN s
    ELSE Loaded(RotateMemTable(WriteInternal(s, Head(ops).key, Head(ops).value, kPut)),
                Tail(ops))

LoadedOps ==
    <<[type |-> kPut, key |-> 1, value |-> 1], [type |-> kPut, key |-> 2, value |-> 1],
      [type |-> kPut, key |-> 1, value |-> 2], [type |-> kPut, key |-> 2, value |-> 2]>>

InitConc ==
    /\ dbOpen = TRUE
    /\ \E more \in {<<>>} \cup {<<k>> : k \in Keys} :
        /\ IsState(IF more = <<>> THEN Loaded(Initialize(EmptyDirectory), LoadedOps)
                   ELSE WriteInternal(Loaded(Initialize(EmptyDirectory), LoadedOps),
                                      more[1], 1, kPut))
        /\ history = [i \in 1..(Len(LoadedOps) + Len(more)) |->
                        IF i <= Len(LoadedOps) THEN Acked(LoadedOps[i], i, FALSE)
                        ELSE Acked([type |-> kPut, key |-> more[1], value |-> 1], i, FALSE)]
    /\ snapshot = -1
    /\ crashedAt = -1
    /\ reopens = 0
    /\ ThreadsIdle
    /\ StorageInit

\* one thread flushes, one reads, and the compactor's thread compacts
NextConc ==
    \/ next_file_number_ <= MaxConcFileNumber /\ FlushBegin("w1") /\ UNCHANGED storageVars
    \/ FlushStep("w1") /\ UNCHANGED storageVars
    \/ \E k \in Keys : GetBegin(k) /\ UNCHANGED storageVars
    \/ GetStep /\ UNCHANGED storageVars
    \/ BgWake /\ UNCHANGED storageVars
    \/ BgCompactionStep /\ UNCHANGED storageVars

SpecConc == InitConc /\ [][NextConc]_vars

\* the process is killed while calls may be under way: the objects, the
\* threads and their locks are gone, the directory stays
Kill ==
    /\ dbOpen
    /\ SetState(Constructed(State))
    /\ dbOpen' = FALSE
    /\ snapshot' = -1
    /\ crashedAt' = Len(history)
    /\ write_mutex_' = NoThread
    /\ mutex_' = {}
    /\ pc' = [t \in Threads |-> "idle"]
    /\ local' = [t \in Threads |-> NoLocal]
    /\ UNCHANGED <<history, reopens, log>>

\* one thread writes and flushes, a flush may fail to open its file, the
\* process may be killed at any statement and the database opened again
NextFaults ==
    \/ \E k \in Keys, v \in Values : PutBegin("w1", k, v, FALSE) /\ UNCHANGED storageVars
    \/ \E k \in Keys : DeleteBegin("w1", k, FALSE) /\ UNCHANGED storageVars
    \/ WriteStep("w1") /\ UNCHANGED storageVars
    \/ next_file_number_ <= MaxFaultsFileNumber /\ FlushBegin("w1") /\ UNCHANGED storageVars
    \/ FlushStep("w1") /\ UNCHANGED storageVars
    \/ FlushOpenFails("w1") /\ UNCHANGED storageVars
    \/ reopens < MaxKills /\ Kill /\ UNCHANGED storageVars
    \/ Open /\ UNCHANGED storageVars

SpecFaults == Init /\ [][NextFaults]_vars

(* ------------------- what the calls made so far require ---------------- *)
\* the positions in `history` of the mutations of key k with sequence <= seq
OpsOn(k, seq) == {i \in 1..Len(history) : history[i].key = k /\ history[i].sequence <= seq}

MaxOf(S) == CHOOSE x \in S : \A y \in S : y <= x

\* the newest mutation of key k among those of `history` at positions in S
Newest(S) == history[MaxOf(S)]

\* what a read of key k has to return when the mutations of `history` with
\* sequence <= seq are the ones it sees
Expected(k, seq) ==
    IF OpsOn(k, seq) = {} THEN NotFound
    ELSE IF Newest(OpsOn(k, seq)).type = kDelete THEN NotFound
    ELSE Ok(Newest(OpsOn(k, seq)).value)

AllOps(k) == {i \in 1..Len(history) : history[i].key = k}

(* -------------------------------- claims ------------------------------- *)
\* C1: once put(k, v) has returned Ok and no later put or delete of k was
\* issued, get(k) at the current snapshot returns v, whatever flushes,
\* rotations and compactions happened in between.
ReadYourWrite ==
    dbOpen =>
        \A k \in Keys :
            (AllOps(k) # {} /\ Newest(AllOps(k)).type = kPut)
                => Get(State, k, 0) = Ok(Newest(AllOps(k)).value)

\* C2: once delete(k) has returned and no later put of k was issued, get(k)
\* returns NotFound, also when older versions of k or the tombstone itself
\* have been flushed or compacted.
DeleteHides ==
    dbOpen =>
        \A k \in Keys :
            (AllOps(k) # {} /\ Newest(AllOps(k)).type = kDelete)
                => Get(State, k, 0) = NotFound

\* C3: get(k, snapshot = s), for s a value GetSnapshot() returned (here one
\* taken after at least one mutation), returns the version of k with the
\* largest sequence <= s, NotFound when there is none or it is a tombstone;
\* later writes, flushes and compactions do not change the answer.
SnapshotRead ==
    (dbOpen /\ snapshot >= 1) =>
        \A k \in Keys : Get(State, k, snapshot) = Expected(k, snapshot)

\* C4: after the process was killed and the database opened again, every put
\* and delete that was acknowledged with sync = true is observable: a key
\* whose newest mutation was acknowledged with sync reads as that mutation.
SyncedSurvivesKill ==
    (dbOpen /\ crashedAt >= 0) =>
        \A k \in Keys :
            (AllOps(k) # {} /\ Newest(AllOps(k)).sync)
                => Get(State, k, 0) = Expected(k, Newest(AllOps(k)).sequence)

StrictlyIncreasing(seq) == \A i, j \in 1..Len(seq) : i < j => seq[i] < seq[j]

\* C5: when put, delete and write-batch calls run on several threads, every
\* mutation gets a sequence number of its own, and the WAL appends and the
\* memtable inserts both happen in strictly increasing sequence order.
WritesInSequenceOrder ==
    /\ StrictlyIncreasing(log.wal)
    /\ StrictlyIncreasing(log.mem)
    /\ \A name \in DOMAIN walFiles :
            StrictlyIncreasing([i \in 1..Len(walFiles[name]) |-> walFiles[name][i].sequence])
    /\ \A i, j \in 1..Len(history) : i # j => history[i].sequence # history[j].sequence

\* C5, its case: thread w2 has written one mutation, a flush has rotated the
\* WAL, and thread w1 has appended and inserted the next mutation
WritesInSequenceOrderWitness ==
    /\ log.wal = <<1, 2>>
    /\ log.mem = <<1, 2>>
    /\ log.by = <<"w2", "w1">>
    /\ pc["w1"] = "w_end"
    /\ Len(history) = 1
    /\ wal_ = 1

\* C6: sequence numbers are never reused, across a clean close or a crash
\* and the reopen that follows: the mutations acknowledged so far carry
\* strictly increasing sequence numbers.
SequenceNeverReused ==
    \A i, j \in 1..Len(history) :
        i < j => history[i].sequence < history[j].sequence

\* C7: at each level >= 1 the files that hold entries have pairwise disjoint
\* key ranges and are listed in ascending order of smallest_key.
LevelsDisjointSorted ==
    \A level \in 1..(kMaxLevels - 1) :
        \A i, j \in 1..Len(levels_[level]) :
            (i < j /\ levels_[level][i].num_entries > 0 /\ levels_[level][j].num_entries > 0)
                => levels_[level][i].largest_key < levels_[level][j].smallest_key

\* C8: a get that runs while another thread rotates or flushes the memtable
\* never finds the active or the immutable memtable pointer null, moved-from
\* or destroyed (the swap and the drop being made only under the exclusive
\* reader/writer lock): no Get ever dereferences an invalid pointer.
GetSeesValidMemTables == ~local[Reader].undefined

\* C9: a get that runs while a compaction runs finds every key that is stored
\* in the compaction's inputs (at no instant does the visible version set
\* hold neither the inputs nor the output): a Get of a key that was stored
\* when the call began, and is never deleted, does not return NotFound.
GetFindsCompactionInputs ==
    (pc[Reader] = "r_return" /\ local[Reader].seen /\ ~local[Reader].undefined)
        => local[Reader].result.ok

\* the files the MANIFEST on disk records
ManifestFiles ==
    UNION {{manifest.levels[l][i].filename : i \in 1..Len(manifest.levels[l])} :
            l \in Levels}

\* C10: every file the MANIFEST on disk records exists on disk, at every
\* moment (so also after a crash at any step), with flush and compaction on
\* different threads.
ManifestFilesExist ==
    (manifest.exists /\ manifest.complete) => ManifestFiles \subseteq DOMAIN sstFiles

\* C11: WriteManifest replaces the MANIFEST atomically: whenever the process
\* may be killed, the MANIFEST on disk, once there is one, is a complete
\* image (the previous one or the new one), never empty or partial.
ManifestNeverPartial == manifest.exists => manifest.complete

\* the records of the active and of the immutable memtable
MemTableRecords ==
    UNION {{heap[p].entries[i] : i \in 1..Len(heap[p].entries)} :
            p \in {memtable_, immutable_memtable_} \ {NullPtr}}

\* the records of the WAL segments on disk
WalRecords ==
    UNION {{walFiles[n][i] : i \in 1..Len(walFiles[n])} : n \in DOMAIN walFiles}

\* C12: with the WAL enabled, every record in the active or the immutable
\* memtable is in a WAL segment that exists on disk, after every statement
\* of put, delete, rotation and flush, also when a flush failed and the next
\* rotation flushes the immutable memtable again.
MemTableRecordsLogged ==
    \A e \in MemTableRecords :
        MakeRecord(e.type, e.key, e.value, e.sequence) \in WalRecords

\* C13: a flush (Flush(), or the flush a normal close makes) followed by
\* reopening preserves reads: when the database is closed with its memtable
\* flushed, get(k) after Database::Open on the directory returns, for every
\* key, what get(k) returned just before the close.
FlushedReadsSurviveReopen ==
    [][(dbOpen /\ ~dbOpen' /\ State' = Constructed(Destroy(State)))
            => /\ ~OpenFails(State')
               /\ \A k \in Keys : Get(Initialize(State'), k, 0) = Get(State, k, 0)]_vars

\* the keys from k on that have a visible version at sequence seq that is not
\* a tombstone, in ascending order, each with the value of that version
RECURSIVE VisibleFrom(_, _)
VisibleFrom(k, seq) ==
    IF k > NumKeys THEN <<>>
    ELSE (IF Expected(k, seq).ok
          THEN <<[key |-> k, value |-> Expected(k, seq).value]>> ELSE <<>>)
            \o VisibleFrom(k + 1, seq)

\* C22: an iterator made by NewIterator, after SeekToFirst and repeated Next,
\* yields every key that has a visible version which is not a tombstone,
\* once, in ascending key order, with the value of its newest visible version.
IteratorYieldsVisible == dbOpen => IterScan(State) = VisibleFrom(1, sequence_)

\* C24: a compaction does not change what reads return: for every key,
\* get(k) right after a completed compaction (the step that takes files out
\* of a level) returns what get(k) returned right before it.
CompactionKeepsReads ==
    [][(dbOpen /\ dbOpen' /\ \E l \in Levels : Len(levels_'[l]) < Len(levels_[l]))
            => \A k \in Keys : Get(State', k, 0) = Get(State, k, 0)]_vars

\* C37: CompactLevel(L) with L >= 0 compacts level L: the file lists of the
\* levels other than L and L + 1 are after the call what they were before it
CompactLevelCompactsLevel ==
    dbOpen =>
        \A L \in 0..1 : \A l \in Levels \ {L, L + 1} :
            CompactLevel(State, L).levels_[l] = levels_[l]

(* ------------------------ the replacer on its own ---------------------- *)
Frames == 0..(NumFrames - 1)

\* the values of K the replacer is constructed with
ReplacerKs == {1, 2}

\* a call of LRUKReplacer::RecordAccess
CallRecordAccess(frame_id) ==
    /\ replacer.current_timestamp_ < MaxTimestamp
    /\ replacer' = RecordAccess(replacer, frame_id)
    /\ evicted' = NoEvict
    /\ UNCHANGED engineVars

\* a call of LRUKReplacer::SetEvictable
CallSetEvictable(frame_id, evictable) ==
    /\ replacer' = SetEvictable(replacer, frame_id, evictable)
    /\ evicted' = NoEvict
    /\ UNCHANGED engineVars

\* a call of LRUKReplacer::Remove
CallRemove(frame_id) ==
    /\ replacer' = ReplacerRemove(replacer, frame_id)
    /\ evicted' = NoEvict
    /\ UNCHANGED engineVars

\* a call of LRUKReplacer::Evict
CallEvict ==
    \E order \in Orders(replacer.evictable_frames_) :
        /\ replacer' = Evict(replacer, order).replacer
        /\ evicted' = [called |-> TRUE, on |-> replacer,
                       ok |-> Evict(replacer, order).ok,
                       frame_id |-> Evict(replacer, order).frame_id]
        /\ UNCHANGED engineVars

InitReplacer ==
    /\ EngineInit
    /\ \E k \in ReplacerKs : replacer = NewReplacer(NumFrames, k)
    /\ evicted = NoEvict
    /\ PoolInit
    /\ WalInit
    /\ BloomInit
    /\ ManifestInit
    /\ UnitInit

NextReplacer ==
    \/ \E f \in Frames : CallRecordAccess(f) /\ UNCHANGED <<poolVars, walVars, bloomVars, manifestVars, unitVars>>
    \/ \E f \in Frames, b \in BOOLEAN : CallSetEvictable(f, b) /\ UNCHANGED <<poolVars, walVars, bloomVars, manifestVars, unitVars>>
    \/ \E f \in Frames : CallRemove(f) /\ UNCHANGED <<poolVars, walVars, bloomVars, manifestVars, unitVars>>
    \/ CallEvict /\ UNCHANGED <<poolVars, walVars, bloomVars, manifestVars, unitVars>>

SpecReplacer == InitReplacer /\ [][NextReplacer]_vars

\* the accesses the replacer r remembers of frame f, oldest first
AccessesOf(r, f) ==
    IF f \in DOMAIN r.access_history_ THEN r.access_history_[f] ELSE <<>>

\* the evictable frames of r with fewer than K accesses
FewerThanK(r) == {f \in r.evictable_frames_ : Len(AccessesOf(r, f)) < r.k_}

\* C17: Evict returns, among the evictable frames, a frame with fewer than K
\* accesses when there is one (of those that were accessed, the one accessed
\* first), otherwise the frame whose K-th most recent access is the oldest;
\* the victim's access history and its evictable entry are removed.
EvictRule ==
    (evicted.called /\ evicted.on.evictable_frames_ # {}) =>
        LET r == evicted.on
            victim == evicted.frame_id
        IN /\ evicted.ok
           /\ victim \in r.evictable_frames_
           /\ FewerThanK(r) # {} =>
                /\ victim \in FewerThanK(r)
                /\ \A g \in FewerThanK(r) :
                      (AccessesOf(r, victim) # <<>> /\ AccessesOf(r, g) # <<>>)
                          => Head(AccessesOf(r, victim)) <= Head(AccessesOf(r, g))
           /\ FewerThanK(r) = {} =>
                \A g \in r.evictable_frames_ :
                    Head(AccessesOf(r, victim)) <= Head(AccessesOf(r, g))
           /\ victim \notin replacer.evictable_frames_
           /\ victim \notin DOMAIN replacer.access_history_

\* C39: for every K >= 1 Evict returns true, with a victim out of the
\* evictable frames, whenever at least one frame is evictable, and returns
\* false only when no frame is evictable.
EvictFindsVictim ==
    evicted.called =>
        /\ evicted.ok <=> (evicted.on.evictable_frames_ # {})
        /\ evicted.ok => evicted.frame_id \in evicted.on.evictable_frames_

(* --------------------------- the buffer pool --------------------------- *)
PageIds == 0..MaxPageId
\* what a caller writes into a page (0 stands for the zero bytes of a new page)
PageData == {1}

\* the callers' bookkeeping after a call returned frame frame_id for page_id
\* (`fresh`: the frame was loaded by this call)
Handed(c, page_id, frame_id, fresh) ==
    [c EXCEPT !.held[page_id] = @ + 1,
              !.handed[page_id] = frame_id,
              !.loaded = IF fresh THEN [@ EXCEPT ![frame_id] = page_id] ELSE @]

\* a call of FetchPage(page_id)
CallFetchPage(page_id) ==
    /\ bpmAlive
    /\ callers.held[page_id] < MaxPins
    /\ bpm.replacer_.current_timestamp_ < MaxPoolAccesses
    /\ \E order \in Orders(bpm.replacer_.evictable_frames_) :
        LET r == FetchPage(bpm, page_id, order)
        IN /\ bpm' = r.pool
           /\ callers' = IF r.frame_id = INVALID_FRAME_ID THEN callers
                         ELSE Handed(callers, page_id, r.frame_id,
                                     page_id \notin DOMAIN bpm.page_table_)
    /\ UNCHANGED <<bpmAlive, replacerVars, walVars, bloomVars, manifestVars, engineVars, unitVars>>

\* a call of NewPage(&page_id)
CallNewPage ==
    /\ bpmAlive
    /\ bpm.next_page_id_ <= MaxPageId
    /\ callers.held[bpm.next_page_id_] < MaxPins
    /\ bpm.replacer_.current_timestamp_ < MaxPoolAccesses
    /\ \E order \in Orders(bpm.replacer_.evictable_frames_) :
        LET r == NewPage(bpm, order)
        IN /\ bpm' = r.pool
           /\ callers' = IF r.frame_id = INVALID_FRAME_ID THEN callers
                         ELSE Handed(callers, r.page_id, r.frame_id, TRUE)
    /\ UNCHANGED <<bpmAlive, replacerVars, walVars, bloomVars, manifestVars, engineVars, unitVars>>

\* a caller that holds a pin on page_id writes `data` into the bytes after
\* the header of the frame it was handed (through Page::GetData())
WriteData(b, c, page_id, data) == [b EXCEPT !.pages_[c.handed[page_id]].data = data]

\* a call of UnpinPage(page_id, is_dirty) by a caller that holds a pin on
\* page_id; is_dirty is true when the caller wrote into the page before
CallUnpinPage(page_id, is_dirty, data) ==
    /\ bpmAlive
    /\ callers.held[page_id] > 0
    /\ LET b == IF is_dirty THEN WriteData(bpm, callers, page_id, data) ELSE bpm
       IN bpm' = UnpinPage(b, page_id, is_dirty).pool
    /\ callers' = [callers EXCEPT
            !.held[page_id] = @ - 1,
            !.handed[page_id] = IF callers.held[page_id] = 1 THEN INVALID_FRAME_ID ELSE @,
            !.owed[page_id] = IF is_dirty THEN {data} ELSE @]
    /\ UNCHANGED <<bpmAlive, replacerVars, walVars, bloomVars, manifestVars, engineVars, unitVars>>

\* a call of FlushPage(page_id)
CallFlushPage(page_id) ==
    /\ bpmAlive
    /\ bpm' = FlushPage(bpm, page_id)
    /\ UNCHANGED <<bpmAlive, callers, replacerVars, walVars, bloomVars, manifestVars, engineVars, unitVars>>

\* a call of DeletePage(page_id) by a caller that holds no pin on page_id;
\* nothing is owed to the file for a page that was deleted
CallDeletePage(page_id) ==
    /\ bpmAlive
    /\ callers.held[page_id] = 0
    /\ bpm' = DeletePage(bpm, page_id).pool
    /\ callers' = IF page_id \in DOMAIN bpm.page_table_ /\ DeletePage(bpm, page_id).ok
                  THEN [callers EXCEPT
                            !.owed[page_id] = {},
                            !.loaded[bpm.page_table_[page_id]] = INVALID_PAGE_ID]
                  ELSE callers
    /\ UNCHANGED <<bpmAlive, replacerVars, walVars, bloomVars, manifestVars, engineVars, unitVars>>

\* BufferPoolManager::~BufferPoolManager, once the callers hold no pin
DestroyPool ==
    /\ bpmAlive
    /\ \A p \in PageIds : callers.held[p] = 0
    /\ bpm' = FlushAllPages(bpm)
    /\ bpmAlive' = FALSE
    /\ UNCHANGED <<callers, replacerVars, walVars, bloomVars, manifestVars, engineVars, unitVars>>

InitPool == EngineInit /\ StorageInit

NextPool ==
    \/ \E p \in PageIds : CallFetchPage(p)
    \/ CallNewPage
    \/ \E p \in PageIds, is_dirty \in BOOLEAN, d \in PageData : CallUnpinPage(p, is_dirty, d)
    \/ \E p \in PageIds : CallFlushPage(p)
    \/ \E p \in PageIds : CallDeletePage(p)
    \/ DestroyPool

SpecPool == InitPool /\ [][NextPool]_vars

\* C14: for every frame that holds a page, the frame is in the replacer's
\* evictable set iff the page's pin count is 0; a page with pin count >= 1
\* is never chosen as victim and its frame is not handed to another page
\* (no two pages on which callers hold pins were handed the same frame).
PinnedNeverEvicted ==
    bpmAlive =>
        /\ \A p \in DOMAIN bpm.page_table_ :
              (bpm.page_table_[p] \in bpm.replacer_.evictable_frames_)
                  <=> (bpm.pages_[bpm.page_table_[p]].pin_count_ = 0)
        /\ \A p, q \in PageIds :
              (p # q /\ callers.held[p] > 0 /\ callers.held[q] > 0)
                  => callers.handed[p] # callers.handed[q]

\* the page was loaded into a frame and that frame still holds it
Resident(p) == \E f \in DOMAIN callers.loaded : callers.loaded[f] = p

\* C15: what a page held when it was unpinned with is_dirty = true is
\* written to the file under the page's own id before its frame is reused,
\* and at the latest when the pool is destroyed, also when the page was
\* unpinned with is_dirty = false later.
DirtyPagesWritten ==
    \A p \in PageIds :
        (~bpmAlive \/ ~Resident(p))
            => \A data \in callers.owed[p] : ReadPage(bpm, p).data = data

\* C16: after any sequence of FetchPage, NewPage, UnpinPage, FlushPage and
\* DeletePage, every entry page_id -> frame of the page table leads to a
\* frame whose stored page id is page_id, also for a page that was fetched
\* by an id never written to the file.
PageTableConsistent ==
    bpmAlive =>
        \A p \in DOMAIN bpm.page_table_ : bpm.pages_[bpm.page_table_[p]].page_id = p

\* the page ids whose entry of the page table leads to frame f
MappedTo(b, f) == {p \in DOMAIN b.page_table_ : b.page_table_[p] = f}

\* frame f is in the free list
InFreeList(b, f) == \E i \in DOMAIN b.free_list_ : b.free_list_[i] = f

\* C38: after any sequence of buffer-pool operations every frame is either
\* in the free list or the target of exactly one entry of the page table,
\* never both and never neither; no two page ids map to the same frame.
FramesAccounted ==
    bpmAlive =>
        \A f \in DOMAIN bpm.pages_ :
            \/ InFreeList(bpm, f) /\ MappedTo(bpm, f) = {}
            \/ ~InFreeList(bpm, f) /\ Cardinality(MappedTo(bpm, f)) = 1

(* --------------------------- the WAL on its own ------------------------ *)
\* the records a caller appends: a put of a key with a value (which may be
\* empty), or a delete of a key, which carries an empty value
WalInputs ==
    {[type |-> kPut, key |-> Bytes(k), value |-> Bytes(v)] :
        k \in Keys, v \in Values \cup {EmptyValue}}
    \cup {[type |-> kDelete, key |-> Bytes(k), value |-> <<>>] : k \in Keys}

\* the values a byte of the file is altered to
AlteredBytes == {0, 1, 2, 3, 128, 255}

\* the offset at which record j of the file starts
RecordStart(j) == IF j = 1 THEN 0 ELSE walCalls.ends[j - 1]

\* a call of WALWriter::Append; the sequence numbers are 1, 2, ...
CallAppend(in) ==
    /\ ~recovered.result.called
    /\ Len(walCalls.appended) < MaxWalRecords
    /\ walCalls.altered = 0
    /\ walReader = NewReader
    /\ LET sequence == Len(walCalls.appended) + 1
           bytes == EncodeRecord(in.type, in.key, in.value, sequence)
       IN /\ walBytes' = walBytes \o bytes
          /\ walCalls' = [walCalls EXCEPT
                !.appended = Append(@, [type |-> in.type, key |-> in.key,
                                        value |-> in.value, sequence |-> sequence]),
                !.ends = Append(@, Len(walBytes) + Len(bytes))]
    /\ UNCHANGED <<walReader, engineVars, replacerVars, poolVars, bloomVars, manifestVars, unitVars>>

\* one byte after the CRC field of record j is overwritten in the file
AlterByte(j, i, b) ==
    /\ ~recovered.result.called
    /\ walCalls.altered = 0
    /\ walReader = NewReader
    /\ RecordStart(j) + 4 < i
    /\ i <= walCalls.ends[j]
    /\ b # walBytes[i]
    /\ walBytes' = [walBytes EXCEPT ![i] = b]
    /\ walCalls' = [walCalls EXCEPT !.altered = j]
    /\ UNCHANGED <<walReader, engineVars, replacerVars, poolVars, bloomVars, manifestVars, unitVars>>

\* a call of WALReader::ReadRecord, until it returns NotFound
CallReadRecord ==
    /\ ~recovered.result.called
    /\ \A i \in 1..Len(walReader.statuses) : walReader.statuses[i] # "NotFound"
    /\ walReader' = ReadRecord(walBytes, walReader)
    /\ UNCHANGED <<walBytes, walCalls, engineVars, replacerVars, poolVars, bloomVars, manifestVars, unitVars>>

\* Database::Open on the directory that holds the WAL file, which no writer
\* and no reader has open any more: Initialize calls Recover and returns its
\* status
CallRecover ==
    /\ ~recovered.result.called
    /\ walReader = NewReader
    /\ recovered' = [result |-> RecoverFile(walBytes),
                     appended |-> Len(walCalls.appended), altered |-> walCalls.altered]
    /\ UNCHANGED <<memTable, sst, walVars, engineVars, replacerVars, poolVars, bloomVars,
                   manifestVars, soloVars>>

InitWal == EngineInit /\ StorageInit

NextWal ==
    \/ \E in \in WalInputs : CallAppend(in)
    \/ \E j \in 1..MaxWalRecords : \E i \in 1..Len(walBytes) : \E b \in AlteredBytes :
            j <= Len(walCalls.appended) /\ AlterByte(j, i, b)
    \/ CallReadRecord
    \/ CallRecover

SpecWal == InitWal /\ [][NextWal]_vars

\* list a starts list b
StartsWith(b, a) == Len(a) <= Len(b) /\ SubSeq(b, 1, Len(a)) = a

\* list a without its element j
Without(a, j) == SubSeq(a, 1, j - 1) \o SubSeq(a, j + 1, Len(a))

\* C18: the reader returns exactly the appended records, in append order,
\* with type, key, value and sequence unchanged, then NotFound; for a record
\* in which one byte after the CRC field was altered it returns Corruption,
\* and no altered record is ever delivered: what was delivered is always a
\* start of the unaltered appended records.
WalReaderFaithful ==
    LET a == walCalls.appended
        j == walCalls.altered
        d == walReader.delivered
        st == walReader.statuses
    IN /\ j = 0 =>
            /\ StartsWith(a, d)
            /\ \A i \in 1..Len(st) : st[i] = IF i <= Len(a) THEN "Ok" ELSE "NotFound"
            /\ Len(st) >= Len(a) => d = a
       /\ j > 0 =>
            /\ StartsWith(Without(a, j), d)
            /\ \A i \in 1..Len(st) : i < j => st[i] = "Ok" /\ d[i] = a[i]
            /\ Len(st) >= j => st[j] = "Corruption"

\* the second of two records was altered: the first was delivered, the
\* second was refused
WalAlteredRefused ==
    /\ walCalls.altered = 2
    /\ Len(walReader.delivered) = 1
    /\ Len(walReader.statuses) = 2
    /\ walReader.statuses[2] = "Corruption"

(* ------------------------ the bloom filter on its own ------------------ *)
\* the keys filters are made of: the empty key, keys of one byte, a key of
\* two bytes and a key longer than a four-byte block
BloomKeys == {<<>>, <<1>>, <<2>>, <<1, 2>>, <<1, 2, 3, 4, 5>>}

\* the bits_per_key filters are made with: none, the default, and one that
\* makes the bit array longer than its minimum
BitsPerKey == {0, kBloomFilterBitsPerKey, 4 * kBloomFilterBitsPerKey}

\* all lists of at most n keys
RECURSIVE KeyLists(_)
KeyLists(n) ==
    IF n = 0 THEN {<<>>}
    ELSE KeyLists(n - 1) \cup {Append(l, k) : l \in KeyLists(n - 1), k \in BloomKeys}

\* a call of BloomFilter::Create
CallCreate(keys, bits_per_key) ==
    /\ bloom.filter = NoFilter
    /\ bloom' = [bloom EXCEPT !.keys = keys, !.filter = BloomCreate(keys, bits_per_key)]
    /\ UNCHANGED <<table, engineVars, replacerVars, poolVars, walVars, manifestVars, unitVars>>

\* a call of Serialize on the filter
CallSerialize ==
    /\ bloom.filter # NoFilter
    /\ bloom.data = <<>>
    /\ bloom' = [bloom EXCEPT !.data = Serialize(bloom.filter)]
    /\ UNCHANGED <<table, engineVars, replacerVars, poolVars, walVars, manifestVars, unitVars>>

\* a call of BloomFilter::Deserialize on the serialised bytes
CallDeserialize ==
    /\ bloom.data # <<>>
    /\ ~bloom.deserialized
    /\ bloom' = [bloom EXCEPT !.copy = Deserialize(bloom.data), !.deserialized = TRUE]
    /\ UNCHANGED <<table, engineVars, replacerVars, poolVars, walVars, manifestVars, unitVars>>

\* a call of SSTableBuilder::Add (the table is built when the filter above
\* has gone its way: the two do not depend on each other)
CallBuilderAdd(key) ==
    /\ bloom.deserialized
    /\ table.file = <<>>
    /\ Len(table.keys_for_bloom_) < MaxBloomKeys
    /\ table' = [table EXCEPT !.keys_for_bloom_ = Append(@, key)]
    /\ UNCHANGED <<bloom, engineVars, replacerVars, poolVars, walVars, manifestVars, unitVars>>

\* a call of SSTableBuilder::Finish
CallFinish(bits_per_key) ==
    /\ bloom.deserialized
    /\ table.file = <<>>
    /\ table' = [table EXCEPT !.file = FinishBytes(table.keys_for_bloom_, bits_per_key)]
    /\ UNCHANGED <<bloom, engineVars, replacerVars, poolVars, walVars, manifestVars, unitVars>>

\* a call of SSTableReader::Open on the finished file
CallReaderOpen ==
    /\ table.file # <<>>
    /\ ~table.opened
    /\ table' = [table EXCEPT !.opened = TRUE, !.reader = ReaderInitialize(table.file)]
    /\ UNCHANGED <<bloom, engineVars, replacerVars, poolVars, walVars, manifestVars, unitVars>>

InitBloom == EngineInit /\ StorageInit

NextBloom ==
    \/ \E keys \in KeyLists(MaxBloomKeys) : \E b \in BitsPerKey : CallCreate(keys, b)
    \/ CallSerialize
    \/ CallDeserialize
    \/ \E key \in BloomKeys : CallBuilderAdd(key)
    \/ \E b \in BitsPerKey : CallFinish(b)
    \/ CallReaderOpen

SpecBloom == InitBloom /\ [][NextBloom]_vars

\* C19: MayContain returns true for every key given to BloomFilter::Create,
\* on the filter itself, on the filter that Deserialize makes of its
\* serialised bytes, and on the filter a reader loads from the bloom block
\* of the SSTable built from the keys.
NoFalseNegatives ==
    /\ bloom.filter # NoFilter =>
            \A i \in 1..Len(bloom.keys) : BloomMayContain(bloom.filter, bloom.keys[i])
    /\ bloom.deserialized =>
            /\ bloom.copy # NoFilter
            /\ \A i \in 1..Len(bloom.keys) : BloomMayContain(bloom.copy, bloom.keys[i])
    /\ table.opened =>
            /\ table.reader.status = "Ok"
            /\ \A i \in 1..Len(table.keys_for_bloom_) :
                    BloomMayContain(table.reader.bloom_filter_, table.keys_for_bloom_[i])

\* two keys went through Create, Serialize and Deserialize, and two keys
\* through an SSTable
BloomRoundTrips ==
    /\ bloom.deserialized
    /\ Len(bloom.keys) = 2
    /\ table.opened
    /\ Len(table.keys_for_bloom_) = 2

(* ------------------------ the MANIFEST on its own ---------------------- *)
\* the next file numbers of the version set that is written: a fresh one,
\* and ones loaded from an earlier MANIFEST
FirstFileNumbers == {1, 9, 300}

\* the levels files are added to
ManifestLevelIds == {0, 1, kMaxLevels - 1}

\* the metadata of the files added: an SSTable without entries, one of one
\* key and one of two keys, each small or large
ManifestMetas(file_number) ==
    {[file_number |-> file_number, filename |-> FileNameBytes(file_number),
      file_size |-> size, smallest_key |-> keys[1], largest_key |-> keys[2],
      num_entries |-> keys[3], level |-> 0] :
        size \in {76, 70000},
        keys \in {<< <<>>, <<>>, 0 >>, << <<1>>, <<1>>, 1 >>, << <<1>>, <<2>>, 2 >>}}

\* the number of files in the version set
RECURSIVE NumFiles(_, _)
NumFiles(levels, l) ==
    IF l \notin DOMAIN levels THEN 0 ELSE Len(levels[l]) + NumFiles(levels, l + 1)

\* GetNextFileNumber and AddFile, as a flush or a compaction calls them
CallAddFile(level, f) ==
    /\ ~vsFile.exists
    /\ NumFiles(vsWritten.levels_, 0) < MaxManifestFiles
    /\ vsWritten' = [next_file_number_ |-> vsWritten.next_file_number_ + 1,
                     levels_ |-> AddFile(vsWritten.levels_, level,
                                         [f EXCEPT !.level = level])]
    /\ UNCHANGED <<vsFile, vsLoaded, engineVars, replacerVars, poolVars, walVars, bloomVars, unitVars>>

\* a call of VersionSet::WriteManifest
CallWriteManifest ==
    /\ ~vsFile.exists
    /\ vsFile' = [exists |-> TRUE, bytes |-> ManifestBytes(vsWritten)]
    /\ UNCHANGED <<vsWritten, vsLoaded, engineVars, replacerVars, poolVars, walVars, bloomVars, unitVars>>

\* a call of VersionSet::LoadManifest on a fresh version set
CallLoadManifest ==
    /\ vsFile.exists
    /\ ~vsLoaded.called
    /\ vsLoaded' = LoadManifestBytes(vsLoaded.versions, vsFile)
    /\ UNCHANGED <<vsWritten, vsFile, engineVars, replacerVars, poolVars, walVars, bloomVars, unitVars>>

InitManifest ==
    /\ EngineInit
    /\ ReplacerInit
    /\ PoolInit
    /\ WalInit
    /\ BloomInit
    /\ UnitInit
    /\ \E n \in FirstFileNumbers : vsWritten = [NewVersionSet EXCEPT !.next_file_number_ = n]
    /\ vsFile = NoManifestFile
    /\ vsLoaded = NotLoaded

NextManifest ==
    \/ \E level \in ManifestLevelIds :
            \E f \in ManifestMetas(vsWritten.next_file_number_) : CallAddFile(level, f)
    \/ CallWriteManifest
    \/ CallLoadManifest

SpecManifest == InitManifest /\ [][NextManifest]_vars

\* the fields of a file's metadata that the MANIFEST records
SameFile(f, g) ==
    /\ f.file_number = g.file_number
    /\ f.file_size = g.file_size
    /\ f.filename = g.filename
    /\ f.smallest_key = g.smallest_key
    /\ f.largest_key = g.largest_key
    /\ f.num_entries = g.num_entries

\* C20: LoadManifest into a fresh version set, of the file WriteManifest
\* wrote, succeeds and reproduces the written version set: the same next
\* file number and, at every level, the same files in the same order with
\* the same file number, size, file name, smallest key, largest key and
\* entry count.
ManifestRoundTrip ==
    vsLoaded.called =>
        /\ vsLoaded.status = "Ok"
        /\ vsLoaded.versions.next_file_number_ = vsWritten.next_file_number_
        /\ DOMAIN vsLoaded.versions.levels_ = DOMAIN vsWritten.levels_
        /\ \A l \in DOMAIN vsWritten.levels_ :
                /\ Len(vsLoaded.versions.levels_[l]) = Len(vsWritten.levels_[l])
                /\ \A i \in 1..Len(vsWritten.levels_[l]) :
                        SameFile(vsLoaded.versions.levels_[l][i], vsWritten.levels_[l][i])

\* a version set with two files at level 1, whose keys differ, was written
\* and loaded
ManifestLoadedTwoFiles ==
    /\ vsLoaded.called
    /\ Len(vsWritten.levels_[1]) = 2
    /\ vsWritten.levels_[1][1].smallest_key # vsWritten.levels_[1][1].largest_key

\* C27: when a record of the WAL file fails its CRC check and further
\* records follow it, Database::Open returns an error.
CorruptWalRefused ==
    (/\ recovered.result.called
     /\ recovered.altered # 0
     /\ recovered.altered < recovered.appended
     /\ recovered.result.warned = "Corruption")
        => recovered.result.status # "Ok"

(* ----------------------- compactions that fail ----------------------- *)
\* DoCompaction, lines 350-358: SSTableReader::Open of an input returns an error
BgInputFails == BgStep("b_merge", State, NoLocal, "idle")

\* lines 365-369
BgMergeFails ==
    /\ next_file_number_ <= MaxFailFileNumber
    /\ InputsOpen(State, local[Background].job)
    /\ BgStep("b_merge", MergeFails(State, local[Background].job), NoLocal, "idle")

\* lines 372-375
BgOutputFails ==
    /\ next_file_number_ <= MaxFailFileNumber
    /\ InputsOpen(State, local[Background].job)
    /\ BgStep("b_merge", OutputOpenFails(State, local[Background].job), NoLocal, "idle")

\* one thread flushes and the compactor's thread compacts; a compaction may fail
NextCompaction ==
    \/ next_file_number_ <= MaxConcFileNumber /\ FlushBegin("w1") /\ UNCHANGED storageVars
    \/ FlushStep("w1") /\ UNCHANGED storageVars
    \/ BgWake /\ UNCHANGED storageVars
    \/ BgCompactionStep /\ UNCHANGED storageVars
    \/ BgInputFails /\ UNCHANGED storageVars
    \/ BgMergeFails /\ UNCHANGED storageVars
    \/ BgOutputFails /\ UNCHANGED storageVars

SpecCompaction == InitConc /\ [][NextCompaction]_vars

\* the files the version set lists
ListedFiles ==
    UNION {{levels_[l][i].filename : i \in 1..Len(levels_[l])} : l \in Levels}

\* C28: when a compaction fails while it opens an input, while it merges, or
\* while it opens its output, the per-level file lists and the MANIFEST are
\* as before and no input file has been deleted.
FailedCompactionKeepsFiles ==
    [][(pc[Background] = "b_merge" /\ pc'[Background] = "idle")
            => /\ levels_' = levels_
               /\ manifest' = manifest
               /\ \A i \in 1..Len(local[Background].job.inputs) :
                    local[Background].job.inputs[i].filename \in DOMAIN sstFiles
                        => local[Background].job.inputs[i].filename \in DOMAIN sstFiles']_vars

\* a compaction of the four files of level 0 has failed at the opening of its
\* output: the output is in the directory and no level lists it
FailedCompactionWitness ==
    /\ pc[Background] = "idle"
    /\ pc["w1"] = "idle"
    /\ Len(levels_[0]) >= kLevel0CompactionTrigger
    /\ \E f \in DOMAIN sstFiles : f \notin ListedFiles
    /\ \A f \in ListedFiles : f \in DOMAIN sstFiles

(* --------------------------- writes that fail ------------------------- *)
\* WriteInternal line 187, Write line 392: wal_->Append returns IOError, the
\* call returns it and the lock guard releases the write mutex
WriteAppendFails(t) ==
    /\ pc[t] = "w_wal"
    /\ local[t].seq <= MaxFailedSequence
    /\ write_mutex_' = IF write_mutex_ = t THEN NoThread ELSE write_mutex_
    /\ local' = [local EXCEPT ![t] = NoLocal]
    /\ Goto(t, "idle")
    /\ UNCHANGED <<dbVars, diskVars, ghostVars, mutex_, log>>

\* Write lines 398-400: wal_->Sync returns IOError after the loop over the
\* operations of a batch
WriteSyncFails(t) ==
    /\ pc[t] = "w_end"
    /\ local[t].sync
    /\ Len(local[t].acked) > 1
    /\ local[t].seq <= MaxFailedSequence
    /\ write_mutex_' = IF write_mutex_ = t THEN NoThread ELSE write_mutex_
    /\ local' = [local EXCEPT ![t] = NoLocal]
    /\ Goto(t, "idle")
    /\ UNCHANGED <<dbVars, diskVars, ghostVars, mutex_, log>>

\* one thread puts, deletes and writes batches; the WAL may fail
NextWriteFaults ==
    \/ \E k \in Keys, v \in Values : PutBegin("w1", k, v, FALSE) /\ UNCHANGED storageVars
    \/ \E k \in Keys : DeleteBegin("w1", k, FALSE) /\ UNCHANGED storageVars
    \/ \E b \in Batches, sync \in BOOLEAN : WriteBegin("w1", b, sync) /\ UNCHANGED storageVars
    \/ WriteStep("w1") /\ UNCHANGED storageVars
    \/ WriteAppendFails("w1") /\ UNCHANGED storageVars
    \/ WriteSyncFails("w1") /\ UNCHANGED storageVars

SpecWriteFaults == Init /\ [][NextWriteFaults]_vars

\* C23: when a put, a delete or a write batch returns a status that is not
\* Ok, every later get returns what it returned before the call.
FailedWriteInvisible ==
    [][(pc["w1"] \in {"w_wal", "w_end"} /\ pc'["w1"] = "idle" /\ history' = history)
            => \A k \in Keys : Get(State', k, 0) = local["w1"].before[k]]_vars

(* ------------------------ the steps of a flush ------------------------ *)
\* FlushImmutableMemTable, line 280: WriteManifest cannot open the MANIFEST
\* and returns IOError; the flush returns it through RotateMemTable and
\* Database::Flush, the write mutex is released
FlushManifestFails(t) ==
    /\ pc[t] = "f_manifest"
    /\ write_mutex_' = IF write_mutex_ = t THEN NoThread ELSE write_mutex_
    /\ local' = [local EXCEPT ![t] = NoLocal]
    /\ Goto(t, "idle")
    /\ UNCHANGED <<dbVars, diskVars, ghostVars, mutex_, log>>

\* one thread writes and flushes; a flush may fail at its builder or at the
\* MANIFEST
NextFlush ==
    \/ \E k \in Keys, v \in Values : PutBegin("w1", k, v, FALSE) /\ UNCHANGED storageVars
    \/ \E k \in Keys : DeleteBegin("w1", k, FALSE) /\ UNCHANGED storageVars
    \/ WriteStep("w1") /\ UNCHANGED storageVars
    \/ next_file_number_ <= MaxFlushFileNumber /\ FlushBegin("w1") /\ UNCHANGED storageVars
    \/ FlushStep("w1") /\ UNCHANGED storageVars
    \/ FlushOpenFails("w1") /\ UNCHANGED storageVars
    \/ FlushManifestFails("w1") /\ UNCHANGED storageVars

SpecFlush == Init /\ [][NextFlush]_vars

\* the labels of a flush at which it has not yet added its file to level 0
BeforeAddFile == {"f_move", "f_new", "f_wal", "f_build", "f_add"}

\* C25: a flush writes and closes its SSTable, then adds it to level 0 and
\* writes the MANIFEST, then drops the immutable memtable, and only then
\* deletes WAL segments; when a step fails, no later step is executed.
FlushStepsInOrder ==
    [][/\ levels_' # levels_
            => /\ FileName(local["w1"].n) \in DOMAIN sstFiles
               /\ sstFiles' = sstFiles
               /\ manifest' = manifest
               /\ immutable_memtable_' = immutable_memtable_
               /\ immutable_memtable_ # NullPtr
               /\ walFiles' = walFiles
       /\ manifest' # manifest
            => /\ FileName(local["w1"].n) \in ListedFiles
               /\ FileName(local["w1"].n) \in DOMAIN sstFiles
               /\ immutable_memtable_' = immutable_memtable_
               /\ immutable_memtable_ # NullPtr
               /\ walFiles' = walFiles
       /\ (immutable_memtable_ # NullPtr /\ immutable_memtable_' = NullPtr)
            => /\ manifest = ManifestImage(State)
               /\ FileName(local["w1"].n) \in ListedFiles
               /\ walFiles' = walFiles
       /\ DOMAIN walFiles' # DOMAIN walFiles /\ DOMAIN walFiles' \subseteq DOMAIN walFiles
            => /\ immutable_memtable_ = NullPtr
               /\ manifest = ManifestImage(State)
       /\ (pc["w1"] \in BeforeAddFile /\ pc'["w1"] = "idle")
            => /\ levels_' = levels_
               /\ manifest' = manifest
               /\ immutable_memtable_' = immutable_memtable_
               /\ walFiles' = walFiles
       /\ (pc["w1"] \in {"f_manifest", "f_manifest_write", "f_manifest_flush"}
                /\ pc'["w1"] = "idle")
            => /\ immutable_memtable_' = immutable_memtable_
               /\ walFiles' = walFiles]_vars

\* a flush has run through: its file is in level 0 and in the MANIFEST, the
\* immutable memtable is dropped and the WAL segment of the flushed put is
\* deleted
FlushStepsWitness ==
    /\ pc["w1"] = "idle"
    /\ Len(history) > 0
    /\ Len(levels_[0]) > 0
    /\ manifest = ManifestImage(State)
    /\ immutable_memtable_ = NullPtr
    /\ 0 \notin DOMAIN walFiles
    /\ sstFiles[levels_[0][1].filename].entry_count > 0

(* ----------------------- SSTable files on their own -------------------- *)
\* the keys added to the builders, and the block sizes of their Options: one
\* entry a block, two entries a block, and the default
TableKeys == {<<k>> : k \in Keys}
BlockSizes == {10, 20, kSSTableBlockSize}

\* the values added: one that tells the entries apart, or, for the first
\* entry, the empty value of a Delete
TableValues ==
    {<<sst.adds + 1>>} \cup (IF sst.adds = 0 THEN {<<>>} ELSE {})

TableUnchanged ==
    UNCHANGED <<memTable, recovered, engineVars, replacerVars, poolVars, walVars, bloomVars,
                manifestVars, soloVars>>

\* SSTableBuilder::SSTableBuilder
CallTableNew(block_size) ==
    /\ ~sst.open
    /\ Len(sst.files) < MaxTables
    /\ sst' = [sst EXCEPT !.open = TRUE, !.builder = NewBuilder(block_size),
                          !.last = NoCall]
    /\ TableUnchanged

\* SSTableBuilder::Add of a key that is not smaller than the last one added
CallTableAdd(key, value) ==
    /\ sst.open
    /\ sst.adds < MaxTableEntries
    /\ sst.added # <<>> => ~StringLess(key, sst.added[Len(sst.added)].key)
    /\ sst' = [sst EXCEPT !.builder = SSTableBuilderAdd(@, key, value),
                          !.added = Append(@, [key |-> key, value |-> value]),
                          !.adds = @ + 1]
    /\ TableUnchanged

\* SSTableBuilder::Finish
CallTableFinish ==
    /\ sst.open
    /\ sst' = [sst EXCEPT !.open = FALSE,
                          !.builder = SSTableBuilderFinish(@),
                          !.added = <<>>,
                          !.files = Append(@, [bytes |-> SSTableBuilderFinish(sst.builder).file,
                                               added |-> sst.added,
                                               blocks |-> Len(SSTableBuilderFinish(sst.builder)
                                                                .index_entries_)])]
    /\ TableUnchanged

\* SSTableReader::Open, NumEntries, NewIterator, SeekToFirst and Next to the end
CallTableScan(f) ==
    /\ ~sst.open
    /\ sst.last = NoCall
    /\ f <= Len(sst.files)
    /\ LET rd == SSTableReaderOpen(sst.files[f].bytes)
       IN sst' = [sst EXCEPT !.last = [NoCall EXCEPT !.op = "scan", !.file = f,
                                                    !.status = rd.status,
                                                    !.num_entries = rd.entry_count,
                                                    !.entries = ScanTable(rd)]]
    /\ TableUnchanged

\* SSTableReader::Open and Get
CallTableGet(f, key) ==
    /\ ~sst.open
    /\ sst.last = NoCall
    /\ f <= Len(sst.files)
    /\ LET rd == SSTableReaderOpen(sst.files[f].bytes)
       IN sst' = [sst EXCEPT !.last = [NoCall EXCEPT !.op = "get", !.file = f, !.key = key,
                                                    !.status = rd.status,
                                                    !.result = SSTableReaderGet(rd, key)]]
    /\ TableUnchanged

\* SSTableMerger::Merge of the files written, and a scan of its output
CallTableMerge ==
    /\ ~sst.open
    /\ sst.last = NoCall
    /\ sst.files # <<>>
    /\ LET output == SSTableMerge([f \in 1..Len(sst.files) |->
                                        SSTableReaderOpen(sst.files[f].bytes)])
           rd == SSTableReaderOpen(output)
       IN sst' = [sst EXCEPT !.last = [NoCall EXCEPT !.op = "merge",
                                                    !.status = rd.status,
                                                    !.num_entries = rd.entry_count,
                                                    !.entries = ScanTable(rd)]]
    /\ TableUnchanged

NextTable ==
    \/ \E block_size \in BlockSizes : CallTableNew(block_size)
    \/ \E key \in TableKeys : \E value \in TableValues : CallTableAdd(key, value)
    \/ CallTableFinish
    \/ \E f \in 1..MaxTables : CallTableScan(f)
    \/ \E f \in 1..MaxTables : \E key \in TableKeys : CallTableGet(f, key)
    \/ CallTableMerge

SpecTable == Init /\ [][NextTable]_vars

\* C21: the scan of a finished SSTable yields exactly the entries added, in
\* the order they were added, across the boundaries of its data blocks, and
\* NumEntries is the number of entries added.
ScanYieldsAdded ==
    sst.last.op = "scan" =>
        /\ sst.last.status = "Ok"
        /\ sst.last.entries = sst.files[sst.last.file].added
        /\ sst.last.num_entries = Len(sst.files[sst.last.file].added)

\* a file of four entries in four data blocks has been scanned
ScanYieldsAddedWitness ==
    /\ sst.last.op = "scan"
    /\ Len(sst.files[sst.last.file].added) = MaxTableEntries
    /\ sst.files[sst.last.file].blocks = MaxTableEntries
    /\ Len(sst.last.entries) = MaxTableEntries

\* C26: SSTableReader::Get(k) returns the value of the first entry in file
\* order whose key is k, also when the entries of k lie in more than one data
\* block, and NotFound exactly when no entry has the key k.
GetReturnsFirstEntry ==
    sst.last.op = "get" =>
        LET added == sst.files[sst.last.file].added
            hits == {i \in 1..Len(added) : added[i].key = sst.last.key}
        IN sst.last.result =
            IF hits = {} THEN [ok |-> FALSE, value |-> <<>>]
            ELSE [ok |-> TRUE,
                  value |-> added[CHOOSE i \in hits : \A j \in hits : i <= j].value]

\* how often the entry e is in the sequence
Count(e, entries) == Cardinality({i \in 1..Len(entries) : entries[i] = e})

\* the entries of all files written, one file after the other
RECURSIVE AllAdded(_)
AllAdded(f) ==
    IF f > Len(sst.files) THEN <<>> ELSE sst.files[f].added \o AllAdded(f + 1)

\* C29: the output of SSTableMerger::Merge holds every entry of every input
\* as often as the inputs hold it and nothing else, in non-decreasing key
\* order when the inputs are sorted.
MergeIsSortedUnion ==
    sst.last.op = "merge" =>
        /\ sst.last.status = "Ok"
        /\ Len(sst.last.entries) = Len(AllAdded(1))
        /\ sst.last.num_entries = Len(AllAdded(1))
        /\ \A i \in 1..Len(AllAdded(1)) :
                Count(AllAdded(1)[i], sst.last.entries) = Count(AllAdded(1)[i], AllAdded(1))
        /\ \A i \in 1..(Len(sst.last.entries) - 1) :
                ~StringLess(sst.last.entries[i + 1].key, sst.last.entries[i].key)

\* two files of two entries each, with a key in common, have been merged
MergeIsSortedUnionWitness ==
    /\ sst.last.op = "merge"
    /\ Len(sst.files) = MaxTables
    /\ \A f \in 1..MaxTables : Len(sst.files[f].added) = 2
    /\ sst.files[1].added[2].key = sst.files[2].added[1].key
    /\ StringLess(sst.files[2].added[1].key, sst.files[2].added[2].key)
    /\ Len(sst.last.entries) = MaxTableEntries

(* ---------------------- the memtable on its own ------------------------ *)
\* MemTable::Add of an entry whose sequence number no entry of the table has
CallMemTableAdd ==
    \E key \in Keys, sequence \in 1..MaxMemSequence, type \in {kPut, kDelete} :
        \E value \in IF type = kPut THEN Values ELSE {EmptyValue} :
            /\ \A i \in 1..Len(memTable.added) : memTable.added[i].sequence # sequence
            /\ memTable' = [memTable EXCEPT
                        !.table = MemTableAdd(memTable.table, key, value, sequence, type),
                        !.added = Append(memTable.added, [key |-> key, value |-> value,
                                            sequence |-> sequence, type |-> type])]
            /\ UNCHANGED <<sst, recovered, engineVars, replacerVars, poolVars, walVars,
                           bloomVars, manifestVars, soloVars>>

\* MemTable::Get
CallMemTableGet ==
    \E key \in Keys, sequence \in 0..MaxMemSequence :
        /\ memTable' = [memTable EXCEPT !.got = [called |-> TRUE, on |-> memTable.added, key |-> key,
                                     sequence |-> sequence,
                                     result |-> MemTableGet(memTable.table, key, sequence)]]
        /\ UNCHANGED <<sst, recovered, engineVars, replacerVars, poolVars, walVars,
                       bloomVars, manifestVars, soloVars>>

NextMemTable == CallMemTableAdd \/ CallMemTableGet

SpecMemTable == Init /\ [][NextMemTable]_vars

\* the entries of `added` for the key with a sequence number of at most `sequence`
VisibleEntries(added, key, sequence) ==
    {i \in 1..Len(added) : added[i].key = key /\ added[i].sequence <= sequence}

\* C30: MemTable::Get(k, s) returns the value of the added entry for k with the
\* largest sequence number that is at most s when that entry is a Put, and
\* NotFound when it is a Delete or when there is no such entry, in whatever
\* order the entries were added.
MemTableGetNewestVisible ==
    memTable.got.called =>
        LET added == memTable.got.on
            seen == VisibleEntries(added, memTable.got.key, memTable.got.sequence)
        IN IF seen = {} THEN memTable.got.result = NotFound
           ELSE LET i == CHOOSE i \in seen :
                             \A j \in seen : added[j].sequence <= added[i].sequence
                IN memTable.got.result = IF added[i].type = kPut THEN Ok(added[i].value)
                                         ELSE NotFound

\* Get returned a value for a key that has two visible entries and a newer
\* invisible one, the entries having been added newest first
MemTableGetWitness ==
    /\ memTable.got.called
    /\ memTable.got.result.ok
    /\ Cardinality(VisibleEntries(memTable.got.on, memTable.got.key,
                                  memTable.got.sequence)) = 2
    /\ Cardinality(VisibleEntries(memTable.got.on, memTable.got.key, MaxMemSequence)) = 3
    /\ \A i \in 1..(Len(memTable.got.on) - 1) :
            memTable.got.on[i].sequence > memTable.got.on[i + 1].sequence

(* ---------------------- the skiplist on its own ------------------------ *)
SkipUnchanged ==
    UNCHANGED <<memTable, sst, recovered, engineVars, replacerVars, poolVars, walVars,
                bloomVars, manifestVars, compactorSync, heldPage>>

\* SkipList::Insert line 55, run by the one thread that inserts
InsertBegin(key) ==
    /\ skiplist.writer.pc = "idle"
    /\ skiplist.list.allocated < MaxSkipNodes
    /\ skiplist' = [skiplist EXCEPT !.writer = [SkipIdle EXCEPT
            !.pc = "height", !.key = key,
            !.prev = FindWithPrev(skiplist.list, key, head_,
                                  GetMaxHeight(skiplist.list) - 1, SkipIdle.prev).prev]]
    /\ SkipUnchanged

\* lines 56-61: RandomHeight returns height
InsertHeight(height) ==
    /\ skiplist.writer.pc = "height"
    /\ LET r == RaiseHeight(skiplist.list, skiplist.writer.prev, height)
       IN skiplist' = [skiplist EXCEPT
            !.list = NewNode(r.list, skiplist.writer.key, height),
            !.writer = [@ EXCEPT !.pc = "own", !.prev = r.prev, !.height = height,
                                 !.x = skiplist.list.allocated + 1, !.i = 0]]
    /\ SkipUnchanged

\* line 63
InsertOwn ==
    /\ skiplist.writer.pc = "own"
    /\ skiplist' = [skiplist EXCEPT
            !.list = StoreOwnNext(@, skiplist.writer.x, skiplist.writer.i, skiplist.writer.prev),
            !.writer.pc = "link"]
    /\ SkipUnchanged

\* line 64 and the loop's ++i; Insert returns after the last level
InsertLink ==
    /\ skiplist.writer.pc = "link"
    /\ LET w == skiplist.writer
           list == LinkNode(skiplist.list, w.x, w.i, w.prev)
       IN IF w.i + 1 < w.height
          THEN skiplist' = [skiplist EXCEPT !.list = list,
                                !.writer = [w EXCEPT !.pc = "own", !.i = w.i + 1]]
          ELSE skiplist' = [skiplist EXCEPT !.list = list, !.writer = SkipIdle,
                                !.done = @ \cup {w.key}]
    /\ SkipUnchanged

\* SkipList::Contains on a reading thread, up to the loop of FindGreaterOrEqual
ContainsBegin(key) ==
    /\ skiplist.reader.pc = "idle"
    /\ skiplist' = [skiplist EXCEPT !.reader = [ReadIdle EXCEPT
            !.pc = "find", !.op = "contains", !.key = key, !.x = head_,
            !.level = GetMaxHeight(skiplist.list) - 1, !.must = skiplist.done]]
    /\ SkipUnchanged

\* one round of that loop; Contains returns after the last one.  A link that
\* holds no node sends the thread anywhere ("wild")
ContainsRound ==
    /\ skiplist.reader.pc = "find"
    /\ LET rd == skiplist.reader
           r == FindRound(skiplist.list, rd.key, rd.x, rd.level)
       IN skiplist' = [skiplist EXCEPT !.reader =
            IF r.wild THEN [rd EXCEPT !.pc = "wild"]
            ELSE IF r.returned
            THEN [rd EXCEPT !.pc = "idle", !.x = 0, !.level = 0,
                    !.result = r.node # nullptr /\ Equal(rd.key, skiplist.list.key[r.node])]
            ELSE [rd EXCEPT !.x = r.x, !.level = r.level]]
    /\ SkipUnchanged

\* Iterator::SeekToFirst on a reading thread
ScanBegin ==
    /\ skiplist.reader.pc = "idle"
    /\ skiplist' = [skiplist EXCEPT !.reader = [ReadIdle EXCEPT
            !.pc = "scan", !.op = "scan", !.x = NodeNext(skiplist.list, head_, 0),
            !.must = skiplist.done]]
    /\ SkipUnchanged

\* Iterator::Valid, key and Next
ScanRound ==
    /\ skiplist.reader.pc = "scan"
    /\ LET rd == skiplist.reader
       IN skiplist' = [skiplist EXCEPT !.reader =
            IF rd.x = nullptr THEN [rd EXCEPT !.pc = "idle", !.x = 0]
            ELSE IF rd.x = Garbage \/ rd.x > skiplist.list.allocated
            THEN [rd EXCEPT !.pc = "wild"]
            ELSE [rd EXCEPT !.seen = Append(@, skiplist.list.key[rd.x]),
                            !.x = NodeNext(skiplist.list, rd.x, 0)]]
    /\ SkipUnchanged

NextSkipList ==
    \/ \E key \in SkipKeys : InsertBegin(key)
    \/ \E height \in 1..MaxSkipHeight : InsertHeight(height)
    \/ InsertOwn
    \/ InsertLink
    \/ \E key \in SkipKeys : ContainsBegin(key)
    \/ ContainsRound
    \/ ScanBegin
    \/ ScanRound

SpecSkipList == Init /\ [][NextSkipList]_vars

\* the nodes of a chain are nodes, of that height, in the order of their keys
ChainSorted(sl, level) ==
    LET c == ChainAt(sl, level)
    IN /\ \A i \in 1..Len(c) : c[i] # Garbage /\ sl.height[c[i]] > level
       /\ \A i \in 1..(Len(c) - 1) : sl.key[c[i]] <= sl.key[c[i + 1]]
       /\ level > 0 =>
            \A i \in 1..Len(c) :
                \E j \in 1..Len(ChainAt(sl, level - 1)) : ChainAt(sl, level - 1)[j] = c[i]

\* C31: while one thread inserts and another reads without a lock, at every
\* step of Insert the chain of each level is sorted, ends at nullptr and holds
\* only nodes whose link of that level is set and which are in the chain of
\* the level below; the reader never follows a link that holds no node; a key
\* whose Insert returned before Contains or an iteration began is found by
\* Contains and visited by the iteration
SkipListReadersSafe ==
    /\ \A level \in SkipLevels : ChainSorted(skiplist.list, level)
    /\ skiplist.done \subseteq
            {skiplist.list.key[ChainAt(skiplist.list, 0)[i]] :
                i \in 1..Len(ChainAt(skiplist.list, 0))}
    /\ skiplist.reader.pc # "wild"
    /\ (skiplist.reader.pc = "idle" /\ skiplist.reader.op = "contains"
            /\ skiplist.reader.key \in skiplist.reader.must) => skiplist.reader.result
    /\ (skiplist.reader.pc = "idle" /\ skiplist.reader.op = "scan") =>
            skiplist.reader.must \subseteq
                {skiplist.reader.seen[i] : i \in 1..Len(skiplist.reader.seen)}

\* Contains has found a key inserted before, while a node of height 2 is
\* linked at level 0 and not yet at level 1
SkipListReadersWitness ==
    /\ skiplist.writer.pc = "own" /\ skiplist.writer.i = 1
    /\ skiplist.reader.pc = "idle" /\ skiplist.reader.op = "contains"
    /\ skiplist.reader.key \in skiplist.reader.must
    /\ skiplist.reader.result
    /\ skiplist.list.allocated = MaxSkipNodes

(* ------------- CompactLevel beside the compactor's thread -------------- *)
\* a step of the thread that called Database::CompactLevel
CallerStep(from, s, fields, to) ==
    /\ pc["w1"] = from
    /\ SetState(s)
    /\ local' = [local EXCEPT !["w1"] = fields]
    /\ Goto("w1", to)
    /\ UNCHANGED <<dbOpen, ghostVars, write_mutex_, mutex_, log>>

\* Database::CompactLevel, Compactor::CompactLevel line 259: PickCompaction;
\* no mutex is taken
CompactLevelBegin(level) ==
    /\ dbOpen
    /\ LET job == PickCompaction(State)
       IN CallerStep("idle", State, [NoLocal EXCEPT !.job = job, !.level = level],
                     IF job = NoJob THEN "idle" ELSE "c_merge")

\* DoCompaction on the caller's thread, lines 350-369
CallerMerge ==
    IF InputsOpen(State, local["w1"].job)
    THEN CallerStep("c_merge", CompactMerge(State, local["w1"].job),
                    [local["w1"] EXCEPT !.n = next_file_number_], "c_remove")
    ELSE CallerStep("c_merge", State, NoLocal, "idle")

\* line 392
CallerRemove ==
    CallerStep("c_remove", CompactRemove(State, local["w1"].job), local["w1"], "c_add")

\* lines 372-384 and 393
CallerAdd ==
    CallerStep("c_add",
               CompactAdd(State, local["w1"].job,
                          CompactMeta(State, local["w1"].job, local["w1"].n)),
               local["w1"], "c_manifest")

\* line 394
CallerManifest ==
    CallerStep("c_manifest", WriteManifest(State), local["w1"], "c_delete")

\* lines 397-400, and the return
CallerDelete ==
    CallerStep("c_delete", CompactDelete(State, local["w1"].job), NoLocal, "idle")

CallerCompactionStep ==
    \/ CallerMerge
    \/ CallerRemove
    \/ CallerAdd
    \/ CallerManifest
    \/ CallerDelete

\* a thread calls CompactLevel while the compactor's thread runs
NextCompactLevel ==
    \/ \E level \in 0..1 : CompactLevelBegin(level) /\ UNCHANGED storageVars
    \/ CallerCompactionStep /\ UNCHANGED storageVars
    \/ BgWake /\ UNCHANGED storageVars
    \/ BgCompactionStep /\ UNCHANGED storageVars

SpecCompactLevel == InitConc /\ [][NextCompactLevel]_vars

\* the thread is inside DoCompaction
Compacting(t) ==
    pc[t] \in {"b_merge", "b_remove", "b_add", "b_manifest", "b_manifest_write",
               "b_manifest_flush", "b_delete",
               "c_merge", "c_remove", "c_add", "c_manifest", "c_delete"}

\* C32: no SSTable is an input of two compactions that run at the same time:
\* while CompactLevel on a caller's thread and the compactor's thread are both
\* inside DoCompaction, their jobs have no input file in common
CompactionInputsDisjoint ==
    (Compacting("w1") /\ Compacting(Background)) =>
        InputNumbers(local["w1"].job) \cap InputNumbers(local[Background].job) = {}

(* ---------------------- snapshots beside writers ----------------------- *)
\* threads write while another thread calls GetSnapshot
NextSnapshot ==
    \/ \E t \in Writers, k \in Keys, v \in Values : PutBegin(t, k, v, FALSE) /\ UNCHANGED storageVars
    \/ \E t \in Writers, k \in Keys : DeleteBegin(t, k, FALSE) /\ UNCHANGED storageVars
    \/ \E t \in Writers : WriteStep(t) /\ UNCHANGED storageVars
    \/ GetSnapshot /\ UNCHANGED storageVars

SpecSnapshot == Init /\ [][NextSnapshot]_vars

\* C33: GetSnapshot never returns a sequence number whose mutation is not yet
\* readable: as long as the snapshot s (>= 1) is the one in use, a get of a key
\* at s returns the same result before and after every step of a writer
SnapshotReadsRepeat ==
    [][(snapshot >= 1 /\ snapshot' = snapshot)
            => \A k \in Keys : Get(State', k, snapshot) = Get(State, k, snapshot)]_vars

(* ------------------- the compactor's thread and its callers ------------ *)
\* a wait_for that ends by notification only
WaitForNeverTimesOut(t, sync) == t \in sync.notified

\* std::condition_variable::wait_for can end for a blocked thread: after its
\* second at the latest, notified or not
WaitForEnds(t, sync) == TRUE

\* std::condition_variable::wait can end for a blocked thread: once notified
\* (wake-ups without a notification are not counted on)
WaitEnds(t, sync) == t \in sync.notified

\* std::condition_variable::notify_one: the states after it, one per thread
\* that can be the one woken
NotifyOne(sync) ==
    IF sync.cv_ = {} THEN {sync}
    ELSE {[sync EXCEPT !.notified = @ \cup {t}] : t \in sync.cv_}

\* std::condition_variable::notify_all
NotifyAll(sync) == [sync EXCEPT !.notified = @ \cup sync.cv_]

\* a blocked thread leaves the wait: it holds the mutex again
LeaveWait(sync, t) ==
    [sync EXCEPT !.mutex_ = t, !.cv_ = @ \ {t}, !.notified = @ \ {t}]

\* a thread blocks in wait / wait_for: the mutex is released
EnterWait(sync, t) == [sync EXCEPT !.mutex_ = NoThread, !.cv_ = @ \cup {t}]

\* the components the compactor's thread and its callers leave alone
SyncUnchanged ==
    UNCHANGED <<replacerVars, poolVars, walVars, bloomVars, manifestVars, memTable, sst,
                recovered, skiplist, heldPage>>

\* the thread that calls WaitForCompaction
Waiter == "w2"

\* Compactor::BackgroundThread line 272: while (running_.load())
BgTest ==
    /\ BgStep("idle", State, local[Background], IF running_ THEN "b_lock" ELSE "b_exit")
    /\ UNCHANGED compactorSync /\ SyncUnchanged

\* lines 273-277: the lock, and wait_for's first test of its predicate
BgLock ==
    /\ compactorSync.mutex_ = NoThread
    /\ BgStep("b_lock", State, local[Background],
              IF ~running_ \/ pending_compaction_ THEN "b_woke" ELSE "b_block")
    /\ compactorSync' = [compactorSync EXCEPT !.mutex_ = Background]
    /\ SyncUnchanged

\* wait_for blocks
BgBlock ==
    /\ BgStep("b_block", State, local[Background], "b_blocked")
    /\ compactorSync' = [EnterWait(compactorSync, Background) EXCEPT
            !.blocks = IF compactorSync.stop # "none" THEN @ + 1 ELSE @]
    /\ SyncUnchanged

\* wait_for returns, with the mutex
BgWakeUp ==
    /\ WaitForEnds(Background, compactorSync)
    /\ compactorSync.mutex_ = NoThread
    /\ BgStep("b_blocked", State, local[Background], "b_woke")
    /\ compactorSync' = LeaveWait(compactorSync, Background)
    /\ SyncUnchanged

\* lines 279-286 and 296-299: the thread leaves when it was stopped; otherwise
\* pending_compaction_ is cleared and a level that needs compaction looked
\* for; the mutex is released before PickCompaction, or at the end of the turn
BgWoke ==
    /\ IF ~running_
       THEN BgStep("b_woke", State, local[Background], "b_exit")
       ELSE BgStep("b_woke", [State EXCEPT !.pending_compaction_ = FALSE], local[Background],
                   IF \E l \in 0..(kMaxLevels - 2) : NeedsCompaction(levels_, l)
                   THEN "b_pick" ELSE "idle")
    /\ compactorSync' = [compactorSync EXCEPT !.mutex_ = NoThread]
    /\ SyncUnchanged

\* line 288
BgPickJob ==
    /\ BgPick
    /\ compactorSync' = [compactorSync EXCEPT
            !.picks = IF compactorSync.stop # "none" THEN @ + 1 ELSE @]
    /\ SyncUnchanged

\* line 290: DoCompaction, up to the merge
BgDoMerge ==
    /\ BgMerge
    /\ UNCHANGED compactorSync /\ SyncUnchanged

\* DoCompaction after the merge
BgDoCompaction ==
    /\ \/ BgRemove
       \/ BgAdd
       \/ BgManifestOpen
       \/ BgManifestWrite
       \/ BgManifestFlush
       \/ BgDelete
    /\ UNCHANGED compactorSync /\ SyncUnchanged

\* the steps of the compactor's thread other than the merge
BgThread ==
    \/ BgTest
    \/ BgLock
    \/ BgBlock
    \/ BgWakeUp
    \/ BgWoke
    \/ BgPickJob
    \/ BgDoCompaction

\* the bookkeeping of a call of MaybeScheduleCompaction: it was called, and
\* whether a thread was inside WaitForCompaction then
Scheduled(sync) ==
    [sync EXCEPT !.scheduled = TRUE,
                 !.rescheduled = @ \/ sync.wait \in {"block", "blocked"}]

\* Compactor::MaybeScheduleCompaction
CallMaybeSchedule ==
    /\ dbOpen
    /\ SetState(MaybeScheduleCompaction(State))
    /\ compactorSync' \in NotifyOne(Scheduled(compactorSync))
    /\ UNCHANGED <<dbOpen, ghostVars, threadVars>>
    /\ SyncUnchanged

\* Database::Flush, which ends with MaybeScheduleCompaction
FlushFile ==
    /\ next_file_number_ <= MaxConcFileNumber
    /\ Flush
    /\ compactorSync' \in NotifyOne(Scheduled(compactorSync))
    /\ SyncUnchanged

\* Compactor::WaitForCompaction, called after MaybeScheduleCompaction: the
\* lock, and wait's first test of its predicate
WaitBegin ==
    /\ compactorSync.scheduled
    /\ compactorSync.wait \in {"none", "returned"}
    /\ compactorSync.mutex_ = NoThread
    /\ compactorSync' =
            IF ~pending_compaction_
            THEN [compactorSync EXCEPT !.wait = "returned", !.rescheduled = FALSE]
            ELSE [compactorSync EXCEPT !.wait = "block", !.mutex_ = Waiter,
                                       !.rescheduled = FALSE]
    /\ UNCHANGED engineVars /\ SyncUnchanged

\* wait blocks
WaitBlock ==
    /\ compactorSync.wait = "block"
    /\ compactorSync' = [EnterWait(compactorSync, Waiter) EXCEPT !.wait = "blocked"]
    /\ UNCHANGED engineVars /\ SyncUnchanged

\* the thread is woken: it tests the predicate again, and returns or blocks
WaitWakeUp ==
    /\ compactorSync.wait = "blocked"
    /\ WaitEnds(Waiter, compactorSync)
    /\ compactorSync.mutex_ = NoThread
    /\ compactorSync' =
            IF ~pending_compaction_
            THEN [LeaveWait(compactorSync, Waiter) EXCEPT !.wait = "returned", !.mutex_ = NoThread]
            ELSE [LeaveWait(compactorSync, Waiter) EXCEPT !.wait = "block"]
    /\ UNCHANGED engineVars /\ SyncUnchanged

\* Compactor::Stop lines 235-237 on a running compactor
StopStore ==
    /\ dbOpen
    /\ compactorSync.stop = "none"
    /\ running_
    /\ SetState([State EXCEPT !.running_ = FALSE])
    /\ compactorSync' = [compactorSync EXCEPT !.stop = "stored"]
    /\ UNCHANGED <<dbOpen, ghostVars, threadVars>>
    /\ SyncUnchanged

\* line 238
StopNotify ==
    /\ compactorSync.stop = "stored"
    /\ compactorSync' = [NotifyAll(compactorSync) EXCEPT !.stop = "notified"]
    /\ UNCHANGED engineVars /\ SyncUnchanged

\* lines 240-243: join returns once the thread has left BackgroundThread
StopJoin ==
    /\ compactorSync.stop = "notified"
    /\ pc[Background] = "b_exit"
    /\ compactorSync' = [compactorSync EXCEPT !.stop = "returned"]
    /\ UNCHANGED engineVars /\ SyncUnchanged

\* the steps of a thread that is inside Stop
StopGoesOn ==
    \/ StopNotify
    \/ StopJoin

\* a database whose level 0 holds three or four files: as the flushes left
\* it, or closed after them and opened again
InitCompactor ==
    /\ dbOpen = TRUE
    /\ \E reopened \in BOOLEAN, n \in {kLevel0CompactionTrigger - 1, kLevel0CompactionTrigger} :
        /\ IsState(IF reopened
                   THEN Initialize(Destroy(Loaded(Initialize(EmptyDirectory),
                                                  SubSeq(LoadedOps, 1, n))))
                   ELSE Loaded(Initialize(EmptyDirectory), SubSeq(LoadedOps, 1, n)))
        /\ history = [i \in 1..n |-> Acked(LoadedOps[i], i, FALSE)]
    /\ snapshot = -1
    /\ crashedAt = -1
    /\ reopens = 0
    /\ ThreadsIdle
    /\ StorageInit

\* the compactor's thread, a thread that calls Flush, and the callers of
\* MaybeScheduleCompaction, WaitForCompaction and Stop
NextCompactor ==
    \/ BgThread
    \/ BgDoMerge
    \/ CallMaybeSchedule
    \/ WaitBegin
    \/ WaitBlock
    \/ WaitWakeUp
    \/ StopStore
    \/ StopGoesOn
    \/ FlushFile

SpecCompactor == InitCompactor /\ [][NextCompactor]_vars

\* C34: a WaitForCompaction called after MaybeScheduleCompaction returns only
\* after the scheduled compaction pass has finished: when it returns (and
\* MaybeScheduleCompaction was not called again while it waited), no
\* compaction is pending and the compactor's thread is not inside one
WaitReturnsAfterPass ==
    [][(compactorSync.wait # "returned" /\ compactorSync'.wait = "returned"
            /\ ~compactorSync'.rescheduled)
        => (~pending_compaction_' /\ ~Compacting(Background)' /\ pc'[Background] # "b_pick")]_vars

\* the compactor's thread keeps running: it gets the mutex when the mutex is
\* free again and again, and its merge, which nothing can hold up, comes to
\* an end; a thread inside Stop goes on, and a thread inside
\* WaitForCompaction that holds the mutex goes on to block
SpecCompactorLive ==
    /\ InitCompactor
    /\ [][NextCompactor]_vars
    /\ SF_vars(BgThread)
    /\ []<>(pc[Background] # "b_merge")
    /\ WF_vars(StopGoesOn)
    /\ WF_vars(WaitBlock)

\* C35: after Stop is called on a running compactor, the compactor's thread
\* leaves BackgroundThread and Stop returns; until then the thread blocks in
\* wait_for at most once and picks at most one more compaction, and once Stop
\* has returned the thread has left and starts no compaction
StopEndsThread ==
    /\ (compactorSync.stop = "stored") ~> (compactorSync.stop = "returned")
    /\ [](compactorSync.stop = "returned" => pc[Background] = "b_exit")
    /\ [](compactorSync.blocks <= 1 /\ compactorSync.picks <= 1)

\* Stop has returned after the thread had gone to sleep behind its back
StopEndsThreadWitness ==
    /\ compactorSync.stop = "returned"
    /\ compactorSync.blocks = 1

\* the compactor's thread is inside a compaction of level 0
CompactingLevel0 ==
    /\ Compacting(Background)
    /\ local[Background].job.level = 0
    /\ Len(local[Background].job.inputs) >= kLevel0CompactionTrigger

\* C36: while the compactor is running, whenever level 0 holds at least four
\* files the compactor's thread comes to run a compaction whose inputs are
\* the files of level 0, whether or not MaybeScheduleCompaction was called
Level0GetsCompacted ==
    (running_ /\ NumFilesAtLevel0(levels_) >= kLevel0CompactionTrigger)
        ~> (~running_ \/ CompactingLevel0)

\* level 0 is being compacted although no flush and no call of
\* MaybeScheduleCompaction has asked for it since the database was opened
Level0GetsCompactedWitness ==
    /\ CompactingLevel0
    /\ ~compactorSync.scheduled
    /\ ~pending_compaction_
    /\ next_file_number_ = kLevel0CompactionTrigger + 1

(* ---------------------- the slotted page on its own -------------------- *)
\* the sizes of the tuples the callers insert; the last fits an empty page
\* exactly (PAGE_SIZE - HeaderSize - SlotSize)
TupleSizes == {0, 1, 100, 2000, 4058}

\* the slot indexes DeleteTuple is called with
SlotIndexes == -1..MaxTuples

\* the first byte after the slot directory of p
SlotsEnd(p) == HeaderSize + p.tuple_count * SlotSize

\* Page::GetFreeSpace: PAGE_SIZE - header_size - slots_size -
\* (PAGE_SIZE - free_space_pointer), computed in size_t; a negative
\* difference d wraps to 2^64 + d, for which WrappedSize stands
GetFreeSpace(p) ==
    LET d == p.free_space_pointer - SlotsEnd(p)
    IN IF d >= 0 THEN d ELSE WrappedSize

\* Page::InsertTuple: the outcomes of a call with `size` bytes. A memcpy that
\* ends behind data_ writes outside the page: the call then either goes on
\* (the bytes land in whatever follows the frame) or the process dies.
InsertTuple(p, size) ==
    IF size + SlotSize > GetFreeSpace(p)
    THEN {[ret |-> -1, page |-> p, died |-> FALSE]}
    ELSE LET tuple_offset == (p.free_space_pointer + SlotOffsets - (size % SlotOffsets))
                                % SlotOffsets
             slot_idx == p.tuple_count
             outside == tuple_offset + size > PAGE_SIZE
             after == [p EXCEPT
                         !.slots = Append(@, [offset |-> tuple_offset,
                                              length |-> size % SlotOffsets,
                                              is_valid |-> TRUE]),
                         !.free_space_pointer = tuple_offset,
                         !.tuple_count = @ + 1,
                         !.outside = @ \/ outside]
         IN {[ret |-> slot_idx, page |-> after, died |-> FALSE]}
            \cup (IF outside
                  THEN {[ret |-> -1, page |-> [p EXCEPT !.outside = TRUE], died |-> TRUE]}
                  ELSE {})

\* Page::DeleteTuple
DeleteTuple(p, slot_idx) ==
    IF slot_idx < 0 \/ slot_idx >= p.tuple_count THEN [ok |-> FALSE, page |-> p]
    ELSE IF ~p.slots[slot_idx + 1].is_valid THEN [ok |-> FALSE, page |-> p]
    ELSE [ok |-> TRUE, page |-> [p EXCEPT !.slots[slot_idx + 1].is_valid = FALSE]]

PageUnchanged ==
    UNCHANGED <<memTable, sst, recovered, engineVars, replacerVars, poolVars, walVars,
                bloomVars, manifestVars, skiplist, compactorSync>>

\* BufferPoolManager::NewPage hands out a frame: lines 250-254
HoldNewPage ==
    /\ heldPage.from = "none"
    /\ heldPage' = [heldPage EXCEPT !.from = "NewPage", !.data = ResetPage]
    /\ PageUnchanged

\* BufferPoolManager::FetchPage of a page id the file does not hold hands out
\* a frame: ResetMemory, then DiskManager::ReadPage zero-fills data_
HoldFetchedPage ==
    /\ heldPage.from = "none"
    /\ heldPage' = [heldPage EXCEPT !.from = "FetchPage", !.data = ZeroFill(ResetPage)]
    /\ PageUnchanged

\* a call of Page::InsertTuple on the page held
CallInsertTuple(size) ==
    /\ heldPage.from # "none"
    /\ ~heldPage.died
    /\ heldPage.data.tuple_count < MaxTuples
    /\ \E out \in InsertTuple(heldPage.data, size) :
          heldPage' = [heldPage EXCEPT !.data = out.page, !.died = out.died,
                               !.last = [op |-> "InsertTuple", ret |-> out.ret]]
    /\ PageUnchanged

\* a call of Page::DeleteTuple on the page held
CallDeleteTuple(slot_idx) ==
    /\ heldPage.from # "none"
    /\ ~heldPage.died
    /\ LET r == DeleteTuple(heldPage.data, slot_idx)
       IN heldPage' = [heldPage EXCEPT !.data = r.page,
                               !.last = [op |-> "DeleteTuple",
                                         ret |-> IF r.ok THEN 1 ELSE 0]]
    /\ PageUnchanged

NextPage ==
    \/ HoldNewPage
    \/ HoldFetchedPage
    \/ \E size \in TupleSizes : CallInsertTuple(size)
    \/ \E slot_idx \in SlotIndexes : CallDeleteTuple(slot_idx)

SpecPage == Init /\ [][NextPage]_vars

\* the bytes slot s of the slot directory points at
TupleBytes(s) == s.offset..(s.offset + s.length - 1)

\* C40: for a page held in a frame of the buffer pool, handed out by NewPage
\* or by FetchPage (also of a page id the file never held, read as zeros), any
\* sequence of InsertTuple and DeleteTuple keeps header size + slot directory
\* size <= free_space_pointer <= PAGE_SIZE and stores every inserted tuple
\* inside the page, overlapping neither the header, the slot directory nor
\* another tuple; InsertTuple returns -1 rather than overlapping.
SlottedPageKept ==
    heldPage.last.op # "none" =>
        LET p == heldPage.data
        IN /\ SlotsEnd(p) <= p.free_space_pointer
           /\ p.free_space_pointer <= PAGE_SIZE
           /\ ~p.outside
           /\ \A i \in DOMAIN p.slots :
                 /\ SlotsEnd(p) <= p.slots[i].offset
                 /\ p.slots[i].offset + p.slots[i].length <= PAGE_SIZE
           /\ \A i, j \in DOMAIN p.slots :
                 i # j => TupleBytes(p.slots[i]) \cap TupleBytes(p.slots[j]) = {}

====
